---- MODULE Spec2Model ----
(***************************************************************************)
(* A model of the fitness assistant: the Plan Generator (fitness_agent.py), *)
(* the Persistence Gateway (db_manager.py) and the two command             *)
(* interpreters (app.py process_chat_message, interactive_chat.py          *)
(* InteractiveChat.process_message).                                       *)
(*                                                                         *)
(* Python strings are sequences of tokens: a word, a digit, or one         *)
(* separator character (" ", ":", ","). Python / JSON values are records   *)
(* [t |-> tag, v |-> payload] with tag in str, int, float, null, list,     *)
(* dict; a dict's payload is a function from key names to values.          *)
(***************************************************************************)
EXTENDS Integers, Sequences, FiniteSets, TLC

\* ------------------------------------------------------------------ bounds

\* Longest JSON array the backend returns in the generator specification.
MaxElems == 2
\* How far below 1 and above 7 the day counts handed to the generator go.
ExtraDays == 1
\* Most rows the workout_plans and diet_plans tables hold together.
MaxSaved == 2
\* Most plan rows the direct gateway calls insert.
MaxGwPlans == 1
\* Longest plan list handed to the Calendar Exporter.
MaxCalDays == 3
\* Most calendar exports of a chat session.
MaxExports == 1

\* st.number_input("Number of Days", min_value=1, max_value=7, value=4)
MinValidDays == 1
MaxValidDays == 7

\* ----------------------------------------------------------------- strings

Digits == <<"0", "1", "2", "3", "4", "5", "6", "7", "8", "9">>

IsDigit(c) == \E i \in 1..10 : Digits[i] = c

DigitVal(c) == (CHOOSE i \in 1..10 : Digits[i] = c) - 1

RECURSIVE NatToStr(_)
NatToStr(n) ==
    IF n < 10 THEN <<Digits[n + 1]>>
    ELSE NatToStr(n \div 10) \o <<Digits[(n % 10) + 1]>>

\* str(n) / f"{n}" of a Python int
IntToStr(n) == IF n < 0 THEN <<"-">> \o NatToStr(0 - n) ELSE NatToStr(n)

RECURSIVE DigitsVal(_, _)
DigitsVal(s, acc) ==
    IF s = <<>> THEN acc ELSE DigitsVal(Tail(s), 10 * acc + DigitVal(Head(s)))

RECURSIVE LStrip(_)
LStrip(s) == IF s # <<>> /\ Head(s) = " " THEN LStrip(Tail(s)) ELSE s

RECURSIVE RStrip(_)
RStrip(s) ==
    IF s # <<>> /\ s[Len(s)] = " " THEN RStrip(SubSeq(s, 1, Len(s) - 1)) ELSE s

\* str.strip()
Strip(s) == RStrip(LStrip(s))

\* int(s) of a Python str: surrounding whitespace, an optional sign, digits.
\* [ok |-> FALSE] is ValueError.
ParseInt(s) ==
    LET b == Strip(s)
        neg == b # <<>> /\ Head(b) = "-"
        d == IF b # <<>> /\ Head(b) \in {"-", "+"} THEN Tail(b) ELSE b
    IN  IF d # <<>> /\ \A i \in 1..Len(d) : IsDigit(d[i])
        THEN [ok |-> TRUE, val |-> IF neg THEN 0 - DigitsVal(d, 0) ELSE DigitsVal(d, 0)]
        ELSE [ok |-> FALSE, val |-> 0]

\* s.startswith(p)
StartsWith(s, p) == Len(s) >= Len(p) /\ SubSeq(s, 1, Len(p)) = p

\* index of the first occurrence of p in s, 0 when there is none (p non-empty)
Find(s, p) ==
    LET hits == {i \in 1..(Len(s) - Len(p) + 1) : SubSeq(s, i, i + Len(p) - 1) = p}
    IN  IF hits = {} THEN 0 ELSE CHOOSE i \in hits : \A j \in hits : i <= j

\* p in s
Contains(s, p) == Find(s, p) # 0

\* s.split(p): the pieces between the occurrences of p
RECURSIVE Split(_, _)
Split(s, p) ==
    LET i == Find(s, p)
    IN  IF i = 0 THEN <<s>>
        ELSE <<SubSeq(s, 1, i - 1)>> \o Split(SubSeq(s, i + Len(p), Len(s)), p)

\* s.split(p, 1): split at the first occurrence only
Split1(s, p) ==
    LET i == Find(s, p)
    IN  IF i = 0 THEN <<s>>
        ELSE <<SubSeq(s, 1, i - 1), SubSeq(s, i + Len(p), Len(s))>>

\* s.split(): the whitespace-separated words, empty pieces dropped
RECURSIVE Words(_)
Words(s) ==
    LET b == LStrip(s)
        i == Find(b, <<" ">>)
    IN  IF b = <<>> THEN <<>>
        ELSE IF i = 0 THEN <<b>>
        ELSE <<SubSeq(b, 1, i - 1)>> \o Words(SubSeq(b, i + 1, Len(b)))

\* s.replace(p, "")
RECURSIVE Remove(_, _)
Remove(s, p) ==
    LET i == Find(s, p)
    IN  IF i = 0 THEN s
        ELSE SubSeq(s, 1, i - 1) \o Remove(SubSeq(s, i + Len(p), Len(s)), p)

\* the capitalised tokens of the messages, each with its lower-case form
Capitalised ==
    [Update |-> "update", UPDATE |-> "update", Profile |-> "profile",
     PROFILE |-> "profile", Load |-> "load", Workout |-> "workout", Diet |-> "diet",
     Plan |-> "plan", Age |-> "age", Goals |-> "goals", Create |-> "create",
     Save |-> "save", Name |-> "name", Days |-> "days", Level |-> "level",
     Legs |-> "legs", Beginner |-> "beginner", Export |-> "export",
     Calendar |-> "calendar", Schedule |-> "schedule", Date |-> "date", Gym |-> "gym",
     Help |-> "help"]

\* str.lower() of one token
LowerTok(c) == IF c \in DOMAIN Capitalised THEN Capitalised[c] ELSE c

\* str.lower()
Lower(s) == [i \in 1..Len(s) |-> LowerTok(s[i])]

\* --------------------------------------------------------- Python values

VStr(s) == [t |-> "str", v |-> s]
VInt(n) == [t |-> "int", v |-> n]
VFloat(n) == [t |-> "float", v |-> n]
VNull == [t |-> "null", v |-> 0]
VList(s) == [t |-> "list", v |-> s]
VDict(f) == [t |-> "dict", v |-> f]

\* the empty dict
NoKeys == [k \in {} |-> VNull]

\* d with d[k] = x
DictSet(d, k, x) == [j \in (DOMAIN d) \cup {k} |-> IF j = k THEN x ELSE d[j]]

\* the dict of a set of <<key, value>> pairs with distinct keys
MkDict(S) == [k \in {p[1] : p \in S} |-> (CHOOSE p \in S : p[1] = k)[2]]

\* str(x)
PyStr(x) ==
    CASE x.t = "str" -> x.v
      [] x.t = "int" -> IntToStr(x.v)
      [] x.t = "float" -> IntToStr(x.v) \o <<".", "0">>
      [] x.t = "null" -> <<"None">>
      [] OTHER -> <<"<repr>">>

\* float(s) of a Python str holding a whole number ("30", "30.0"); [ok |-> FALSE]
\* is ValueError
ParseFloat(s) ==
    LET b == Strip(s)
        w == IF Len(b) >= 3 /\ SubSeq(b, Len(b) - 1, Len(b)) = <<".", "0">>
             THEN SubSeq(b, 1, Len(b) - 2) ELSE b
    IN  ParseInt(w)

\* ------------------------------------------------- Plan Generator records

\* class WorkoutPlan(BaseModel): day: str, exercises: List[Dict[str, str]],
\* duration: str, intensity: str. The validation WorkoutPlan(**d) runs.
ValidWorkout(d) ==
    /\ d.t = "dict"
    /\ {"day", "exercises", "duration", "intensity"} \subseteq DOMAIN d.v
    /\ d.v["day"].t = "str"
    /\ d.v["duration"].t = "str"
    /\ d.v["intensity"].t = "str"
    /\ d.v["exercises"].t = "list"
    /\ \A i \in 1..Len(d.v["exercises"].v) :
          LET x == d.v["exercises"].v[i]
          IN  x.t = "dict" /\ \A k \in DOMAIN x.v : x.v[k].t = "str"

\* The WorkoutPlan object built from a dict that validates.
WorkoutPlan(d) ==
    [day |-> d.v["day"].v,
     exercises |-> [i \in 1..Len(d.v["exercises"].v) |->
                      [k \in DOMAIN d.v["exercises"].v[i].v |->
                          d.v["exercises"].v[i].v[k].v]],
     duration |-> d.v["duration"].v,
     intensity |-> d.v["intensity"].v]

\* class DietPlan(BaseModel): meal_type: str, foods: List[str], calories: int,
\* macros: Dict[str, float]. The validation DietPlan(**d) runs (an int is
\* accepted where a float is asked for).
ValidDiet(d) ==
    /\ d.t = "dict"
    /\ {"meal_type", "foods", "calories", "macros"} \subseteq DOMAIN d.v
    /\ d.v["meal_type"].t = "str"
    /\ d.v["calories"].t = "int"
    /\ d.v["foods"].t = "list"
    /\ \A i \in 1..Len(d.v["foods"].v) : d.v["foods"].v[i].t = "str"
    /\ d.v["macros"].t = "dict"
    /\ \A k \in DOMAIN d.v["macros"].v : d.v["macros"].v[k].t \in {"float", "int"}

\* The DietPlan object built from a dict that validates.
DietPlan(d) ==
    [meal_type |-> d.v["meal_type"].v,
     foods |-> [i \in 1..Len(d.v["foods"].v) |-> d.v["foods"].v[i].v],
     calories |-> d.v["calories"].v,
     macros |-> [k \in DOMAIN d.v["macros"].v |-> d.v["macros"].v[k].v]]

\* --------------------------------------------------------- FitnessAgent

\* The exercises of a fallback day.
FallbackExercises ==
    << [name |-> <<"Push-ups">>, sets |-> <<"3">>, reps |-> <<"1", "2">>,
        rest_period |-> <<"6", "0", "s">>],
       [name |-> <<"Squats">>, sets |-> <<"3">>, reps |-> <<"1", "5">>,
        rest_period |-> <<"6", "0", "s">>],
       [name |-> <<"Plank">>, sets |-> <<"3">>, reps |-> <<"3", "0", "s">>,
        rest_period |-> <<"6", "0", "s">>] >>

\* Mutant: range(days - 1), one day short.
FallbackWorkoutPlan_OneShort(days) ==
    IF days <= 1 THEN <<>>
    ELSE [i \in 1..(days - 1) |->
            [day |-> <<"Day", " ">> \o IntToStr(i),
             exercises |-> FallbackExercises,
             duration |-> <<"4", "5", " ", "minutes">>,
             intensity |-> <<"moderate">>]]

\* FitnessAgent._create_fallback_workout_plan: one day per i in range(days)
FallbackWorkoutPlan(days) ==
    IF days <= 0 THEN <<>>
    ELSE [i \in 1..days |->
            [day |-> <<"Day", " ">> \o IntToStr(i),
             exercises |-> FallbackExercises,
             duration |-> <<"4", "5", " ", "minutes">>,
             intensity |-> <<"moderate">>]]

\* FitnessAgent._create_fallback_diet_plan
FallbackDietPlan ==
    << [meal_type |-> <<"Breakfast">>,
        foods |-> << <<"Oatmeal">>, <<"Banana">>, <<"Protein", " ", "Shake">> >>,
        calories |-> 500,
        macros |-> [protein |-> 30, carbs |-> 60, fat |-> 10]],
       [meal_type |-> <<"Lunch">>,
        foods |-> << <<"Chicken", " ", "Breast">>, <<"Brown", " ", "Rice">>, <<"Broccoli">> >>,
        calories |-> 700,
        macros |-> [protein |-> 40, carbs |-> 45, fat |-> 15]],
       [meal_type |-> <<"Dinner">>,
        foods |-> << <<"Salmon">>, <<"Sweet", " ", "Potato">>, <<"Asparagus">> >>,
        calories |-> 600,
        macros |-> [protein |-> 35, carbs |-> 35, fat |-> 30]],
       [meal_type |-> <<"Snack">>,
        foods |-> << <<"Greek", " ", "Yogurt">>, <<"Almonds">>, <<"Berries">> >>,
        calories |-> 300,
        macros |-> [protein |-> 20, carbs |-> 15, fat |-> 15]] >>

\* What "for x in data" yields: the items of a list, the keys of a dict, the
\* characters of a str. A number or null is not iterable (TypeError).
Iterable(x) == x.t \in {"list", "dict", "str"}

RECURSIVE KeySeq(_)
KeySeq(K) ==
    IF K = {} THEN <<>>
    ELSE LET k == CHOOSE j \in K : TRUE IN <<VStr(<<k>>)>> \o KeySeq(K \ {k})

Items(x) ==
    CASE x.t = "list" -> x.v
      [] x.t = "dict" -> KeySeq(DOMAIN x.v)
      [] x.t = "str" -> [i \in 1..Len(x.v) |-> VStr(<<x.v[i]>>)]
      [] OTHER -> <<>>

\* create_workout_plan, the loop body before the constructor: every attribute of
\* every exercise that is a dict becomes str(value)
CoerceWorkout(d) ==
    IF "exercises" \in DOMAIN d.v /\ d.v["exercises"].t = "list"
    THEN VDict(DictSet(d.v, "exercises",
            VList([i \in 1..Len(d.v["exercises"].v) |->
                LET x == d.v["exercises"].v[i]
                IN  IF x.t = "dict"
                    THEN VDict([k \in DOMAIN x.v |-> VStr(PyStr(x.v[k]))])
                    ELSE x])))
    ELSE d

\* One pass of the loop of create_workout_plan over an element: the plan it
\* appends, or ok = FALSE when the element raised and was logged.
WorkoutOf(e) ==
    IF e.t # "dict" THEN [ok |-> FALSE, plan |-> <<>>]
    ELSE LET c == CoerceWorkout(e)
         IN  IF ValidWorkout(c) THEN [ok |-> TRUE, plan |-> WorkoutPlan(c)]
             ELSE [ok |-> FALSE, plan |-> <<>>]

\* create_diet_plan, the loop body before the constructor: calories that is not
\* an int becomes int(float(str(v).replace(",", ""))); every macro that is not a
\* float becomes float(str(v).replace(",", "")). ok = FALSE is ValueError.
CoerceDiet(d) ==
    LET hasCal == "calories" \in DOMAIN d.v /\ d.v["calories"].t # "int"
        cal == IF hasCal THEN ParseFloat(Remove(PyStr(d.v["calories"]), <<",">>))
               ELSE [ok |-> TRUE, val |-> 0]
        d1 == IF hasCal /\ cal.ok THEN DictSet(d.v, "calories", VInt(cal.val)) ELSE d.v
        hasMac == "macros" \in DOMAIN d.v /\ d.v["macros"].t = "dict"
        m == IF hasMac THEN d.v["macros"].v ELSE NoKeys
        conv == [k \in DOMAIN m |->
                   IF m[k].t = "float" THEN [ok |-> TRUE, val |-> m[k].v]
                   ELSE ParseFloat(Remove(PyStr(m[k]), <<",">>))]
        macOk == \A k \in DOMAIN m : conv[k].ok
        d2 == IF hasMac /\ macOk
              THEN DictSet(d1, "macros", VDict([k \in DOMAIN m |-> VFloat(conv[k].val)]))
              ELSE d1
    IN  [ok |-> cal.ok /\ macOk, val |-> VDict(d2)]

\* One pass of the loop of create_diet_plan over an element.
DietOf(e) ==
    IF e.t # "dict" THEN [ok |-> FALSE, plan |-> <<>>]
    ELSE LET c == CoerceDiet(e)
         IN  IF c.ok /\ ValidDiet(c.val) THEN [ok |-> TRUE, plan |-> DietPlan(c.val)]
             ELSE [ok |-> FALSE, plan |-> <<>>]

\* Mutant: one try around the whole batch; a failing element voids the list.
WorkoutPlansOf_AllOrNothing(es) ==
    IF \A i \in 1..Len(es) : WorkoutOf(es[i]).ok
    THEN [i \in 1..Len(es) |-> WorkoutOf(es[i]).plan]
    ELSE <<>>

\* Mutant: the loop stops at the first element that raises (break, not continue).
RECURSIVE DietPlansOf_StopAtFirst(_)
DietPlansOf_StopAtFirst(es) ==
    IF es = <<>> \/ ~DietOf(Head(es)).ok THEN <<>>
    ELSE <<DietOf(Head(es)).plan>> \o DietPlansOf_StopAtFirst(Tail(es))

\* plans after "for plan_data in workout_data": the plan of each element that
\* did not raise, in order
RECURSIVE WorkoutPlansOf(_)
WorkoutPlansOf(es) ==
    IF es = <<>> THEN <<>>
    ELSE (IF WorkoutOf(Head(es)).ok THEN <<WorkoutOf(Head(es)).plan>> ELSE <<>>)
         \o WorkoutPlansOf(Tail(es))

RECURSIVE DietPlansOf(_)
DietPlansOf(es) ==
    IF es = <<>> THEN <<>>
    ELSE (IF DietOf(Head(es)).ok THEN <<DietOf(Head(es)).plan>> ELSE <<>>)
         \o DietPlansOf(Tail(es))

\* A backend outcome: "error" (llm.invoke raised), "garbage" (text json.loads
\* rejects), or the JSON value the text parses to.
BackendError == [t |-> "error", v |-> 0]
Garbage == [t |-> "garbage", v |-> 0]

\* FitnessAgent.create_workout_plan(days, fitness_level) on a backend outcome:
\* raised (llm.invoke is outside the try), or the list returned and the path
\* that produced it.
AgentCreateWorkoutPlan(days, fitness_level, reply) ==
    IF reply.t = "error" THEN [raised |-> TRUE, plans |-> <<>>, via |-> "none"]
    ELSE IF reply.t = "garbage" \/ ~Iterable(reply)
    THEN [raised |-> FALSE, plans |-> FallbackWorkoutPlan(days), via |-> "fallback"]
    ELSE LET plans == WorkoutPlansOf(Items(reply))
         IN  IF plans # <<>>
             THEN [raised |-> FALSE, plans |-> plans, via |-> "backend"]
             ELSE [raised |-> FALSE, plans |-> FallbackWorkoutPlan(days),
                   via |-> "fallback"]

\* Mutant: no "except Exception" after "except json.JSONDecodeError"; a JSON
\* value that is not iterable raises out of the call.
AgentCreateDietPlan_NoCatchAll(calories, reply) ==
    IF reply.t = "error" THEN [raised |-> TRUE, plans |-> <<>>, via |-> "none"]
    ELSE IF reply.t = "garbage"
    THEN [raised |-> FALSE, plans |-> FallbackDietPlan, via |-> "fallback"]
    ELSE IF ~Iterable(reply) THEN [raised |-> TRUE, plans |-> <<>>, via |-> "none"]
    ELSE LET plans == DietPlansOf(Items(reply))
         IN  IF plans # <<>>
             THEN [raised |-> FALSE, plans |-> plans, via |-> "backend"]
             ELSE [raised |-> FALSE, plans |-> FallbackDietPlan, via |-> "fallback"]

\* FitnessAgent.create_diet_plan(daily_calories) on a backend outcome.
AgentCreateDietPlan(calories, reply) ==
    IF reply.t = "error" THEN [raised |-> TRUE, plans |-> <<>>, via |-> "none"]
    ELSE IF reply.t = "garbage" \/ ~Iterable(reply)
    THEN [raised |-> FALSE, plans |-> FallbackDietPlan, via |-> "fallback"]
    ELSE LET plans == DietPlansOf(Items(reply))
         IN  IF plans # <<>>
             THEN [raised |-> FALSE, plans |-> plans, via |-> "backend"]
             ELSE [raised |-> FALSE, plans |-> FallbackDietPlan, via |-> "fallback"]

\* ------------------------------------------------------------ the state

VARIABLES
    call,                  \* the last direct FitnessAgent call: [op, arg, reply]
    result,                \* what it returned: [raised, plans, via]
    user_id,               \* session: the id get_or_create_user gave (<= 0: no store)
    current_workout_plan,  \* session: list of WorkoutPlan (None and [] are both <<>>)
    current_diet_plan,     \* session: list of DietPlan (None and [] are both <<>>)
    user_profile,          \* session: dict of the profile
    saved_workout_plans,   \* session: rows get_workout_plans returned
    saved_diet_plans,      \* session: rows get_diet_plans returned
    message,               \* the chat message handled last
    response,              \* the reply to it: [kind, ...]
    gateway_calls,         \* the Persistence Gateway calls made while handling it
    chat_history,          \* session: chat_messages (web) / chat_history (CLI)
    db_profiles,           \* table profiles: rows [user_id, profile_data]
    db_workout_plans,      \* table workout_plans: rows in insertion order
    db_diet_plans,         \* table diet_plans: rows in insertion order
    db_now,                \* CURRENT_TIMESTAMP of the store
    db_users,              \* table users: rows [id, username] in insertion order
    conn,                  \* DatabaseManager.conn and the state of its transaction
    gw_call,               \* the last direct DatabaseManager call: [op, ...]
    gw_result,             \* what it gave: [raised, val]
    logins,                \* concurrent get_or_create_user calls: [seq, of]
    calendar_log,          \* the create_workout_calendar calls made so far
    calendar_dir,          \* the files of the output directory: path -> events
    calendar_files         \* CLI context["calendar_files"]: the returned paths

genVars == <<call, result>>
sessionVars == <<user_id, current_workout_plan, current_diet_plan, user_profile,
                 saved_workout_plans, saved_diet_plans>>
chatVars == <<message, response, gateway_calls, chat_history>>
dbVars == <<db_profiles, db_workout_plans, db_diet_plans, db_now>>

gwVars == <<db_users, conn, gw_call, gw_result, logins>>
calVars == <<calendar_log, calendar_dir, calendar_files>>

vars == <<genVars, sessionVars, chatVars, dbVars, gwVars, calVars>>

\* ------------------------------------------- backend outcomes (generator)

ExStr == VDict([name |-> VStr(<<"Squats">>), sets |-> VStr(<<"3">>),
                reps |-> VStr(<<"1", "2">>)])
ExInt == VDict([name |-> VStr(<<"Plank">>), sets |-> VInt(3), reps |-> VInt(30)])

Absent == [t |-> "absent", v |-> 0]

\* the dict of the pairs whose value is not Absent
Obj(S) == VDict(MkDict({p \in S : p[2] # Absent}))

WorkoutElems ==
    { Obj({<<"day", d>>, <<"exercises", x>>,
           <<"duration", VStr(<<"3", "0", " ", "min">>)>>,
           <<"intensity", VStr(<<"high">>)>>}) :
        d \in {VStr(<<"Mon">>), VInt(1), Absent},
        x \in {Absent, VList(<<>>), VList(<<ExStr>>), VList(<<ExInt>>),
               VList(<<ExStr, VStr(<<"rest">>)>>)} }
    \cup {VStr(<<"day">>), VInt(3)}

MacrosFloat == VDict([protein |-> VFloat(30), carbs |-> VFloat(60), fat |-> VFloat(10)])
MacrosInt == VDict([protein |-> VInt(40), carbs |-> VInt(45), fat |-> VInt(15)])
MacrosBad == VDict([protein |-> VStr(<<"high">>)])
MacrosPart == VDict([protein |-> VStr(<<"2", "0">>)])

DietElems ==
    { Obj({<<"meal_type", VStr(<<"Lunch">>)>>,
           <<"foods", VList(<<VStr(<<"Rice">>)>>)>>,
           <<"calories", c>>, <<"macros", m>>}) :
        c \in {VInt(700), VStr(<<"1", ",", "2", "0", "0">>), VStr(<<"lots">>),
               VNull, Absent},
        m \in {MacrosFloat, MacrosInt, MacrosBad, MacrosPart, Absent} }
    \cup {Obj({<<"calories", VInt(700)>>, <<"macros", MacrosFloat>>}),
          VStr(<<"meal">>), VInt(3)}

\* the sequences over S of length at most n
SeqsUpTo(S, n) == UNION {[1..k -> S] : k \in 0..n}

\* What the backend can answer that is not a JSON array: llm.invoke raising,
\* text that is no JSON, a number, null, a string, an object.
NonArrayReplies(elems) ==
    {BackendError, Garbage, VInt(5), VNull, VStr(<<"o", "k">>)}
    \cup {VDict([plan |-> VList(<<e>>)]) : e \in elems}

WorkoutReplies ==
    NonArrayReplies(WorkoutElems) \cup {VList(es) : es \in SeqsUpTo(WorkoutElems, MaxElems)}

DietReplies ==
    NonArrayReplies(DietElems) \cup {VList(es) : es \in SeqsUpTo(DietElems, MaxElems)}

DayCounts == (MinValidDays - 1 - ExtraDays)..(MaxValidDays + ExtraDays)

FitnessLevels == {<<"beginner">>, <<"intermediate">>, <<"advanced">>}

\* number_input("Daily Calories", min_value=500, max_value=5000, value=2200)
DefaultCalories == 2200
CalorieTargets == {DefaultCalories, 500}

\* the empty profile dict: keys and values are strings
NoProfile == [k \in {} |-> <<>>]

NoReply == [kind |-> "none"]

\* the sessions that call get_or_create_user side by side, each with its own
\* connection
Sessions == {1, 2}

\* a session that has not called yet
NoLogin == [pc |-> "idle", username |-> <<>>, id |-> 0, created |-> FALSE, calls |-> 0]

\* the SERIAL sequence of users.id and the call of every session
NoLogins == [seq |-> 0, of |-> [s \in Sessions |-> NoLogin]]

\* the chat history of a specification that does not follow it: it stays as it is
NotKept == <<[content |-> <<>>, reply |-> "not kept"]>>

\* chat_messages.append of the prompt and of the response around
\* process_chat_message (CLI: chat_history.append in process_message and its
\* handlers); a step that handles no chat message adds nothing
AppendExchange(history, m, r) ==
    IF history = NotKept \/ m = <<>> THEN history
    ELSE Append(history, [content |-> m, reply |-> r.kind])

\* no DatabaseManager call made yet, and no file in the output directory
NoGwCall == [op |-> "none"]
NoGwResult == [raised |-> FALSE, val |-> VNull]
NoFiles == [f \in {} |-> {}]

NoCall == [op |-> "none", arg |-> 0, reply |-> VNull]
NoResult == [raised |-> FALSE, plans |-> <<>>, via |-> "none"]

\* ------------------------------------------------- generator specification

\* init_session_state, then a first login (load_user_data) of a user who has
\* nothing stored yet.
Init ==
    /\ call = NoCall
    /\ result = NoResult
    /\ user_id = 1
    /\ current_workout_plan = <<>>
    /\ current_diet_plan = <<>>
    /\ user_profile = NoProfile
    /\ saved_workout_plans = <<>>
    /\ saved_diet_plans = <<>>
    /\ message = <<>>
    /\ response = NoReply
    /\ gateway_calls = <<>>
    /\ chat_history = NotKept
    /\ db_profiles = <<>>
    /\ db_workout_plans = <<>>
    /\ db_diet_plans = <<>>
    /\ db_now = 1
    /\ db_users = <<[id |-> 1, username |-> <<"alice">>]>>
    /\ conn = "idle"
    /\ gw_call = NoGwCall
    /\ gw_result = NoGwResult
    /\ logins = NoLogins
    /\ calendar_log = <<>>
    /\ calendar_dir = NoFiles
    /\ calendar_files = <<>>

GenInit == Init

\* One call of the (stateless) agent per behaviour.
GenCreateWorkoutPlan ==
    /\ call = NoCall
    /\ \E days \in DayCounts, level \in FitnessLevels, reply \in WorkoutReplies :
        /\ call' = [op |-> "workout", arg |-> days, reply |-> reply]
        /\ result' = AgentCreateWorkoutPlan(days, level, reply)
        /\ UNCHANGED <<sessionVars, chatVars, dbVars, gwVars, calVars>>

GenCreateDietPlan ==
    /\ call = NoCall
    /\ \E calories \in CalorieTargets, reply \in DietReplies :
        /\ call' = [op |-> "diet", arg |-> calories, reply |-> reply]
        /\ result' = AgentCreateDietPlan(calories, reply)
        /\ UNCHANGED <<sessionVars, chatVars, dbVars, gwVars, calVars>>

GenNext == GenCreateWorkoutPlan \/ GenCreateDietPlan

SpecGen == GenInit /\ [][GenNext]_vars

\* ---------------------------------------------------- Persistence Gateway

\* json.dumps(plan.model_dump()) of a WorkoutPlan
WorkoutDump(p) ==
    VDict([day |-> VStr(p.day),
           exercises |-> VList([i \in 1..Len(p.exercises) |->
               VDict([k \in DOMAIN p.exercises[i] |-> VStr(p.exercises[i][k])])]),
           duration |-> VStr(p.duration),
           intensity |-> VStr(p.intensity)])

\* json.dumps(plan.model_dump()) of a DietPlan
DietDump(p) ==
    VDict([meal_type |-> VStr(p.meal_type),
           foods |-> VList([i \in 1..Len(p.foods) |-> VStr(p.foods[i])]),
           calories |-> VInt(p.calories),
           macros |-> VDict([k \in DOMAIN p.macros |-> VFloat(p.macros[k])])])

\* plan_data = [plan.model_dump() for plan in plans]
WorkoutPlanData(plans) == VList([i \in 1..Len(plans) |-> WorkoutDump(plans[i])])
DietPlanData(plans) == VList([i \in 1..Len(plans) |-> DietDump(plans[i])])

\* Mutant: a row of the user with the same name is replaced (an upsert by name).
DbInsertPlan_Overwrite(table, uid, name, data) ==
    IF \E i \in 1..Len(table) : table[i].user_id = uid /\ table[i].plan_name = name
    THEN [i \in 1..Len(table) |->
            IF table[i].user_id = uid /\ table[i].plan_name = name
            THEN [id |-> table[i].id, user_id |-> uid, plan_name |-> name,
                  plan_data |-> data, created_at |-> db_now]
            ELSE table[i]]
    ELSE Append(table, [id |-> Len(table) + 1, user_id |-> uid, plan_name |-> name,
                        plan_data |-> data, created_at |-> db_now])

\* Mutant: the row is stored without its payload.
DbInsertPlan_EmptyPayload(table, uid, name, data) ==
    Append(table, [id |-> Len(table) + 1, user_id |-> uid, plan_name |-> name,
                   plan_data |-> VList(<<>>), created_at |-> db_now])

\* INSERT INTO workout_plans / diet_plans (user_id, plan_name, plan_data)
\* RETURNING id: id is SERIAL, created_at defaults to CURRENT_TIMESTAMP
DbInsertPlan(table, uid, name, data) ==
    Append(table, [id |-> Len(table) + 1, user_id |-> uid, plan_name |-> name,
                   plan_data |-> data, created_at |-> db_now])

\* ORDER BY created_at DESC over a set of rows
RECURSIVE OrderByCreatedDesc(_)
OrderByCreatedDesc(S) ==
    IF S = {} THEN <<>>
    ELSE LET r == CHOOSE x \in S : \A y \in S : y.created_at <= x.created_at
         IN  <<r>> \o OrderByCreatedDesc(S \ {r})

\* SELECT id, plan_name, plan_data, created_at FROM ... WHERE user_id = %s
\* ORDER BY created_at DESC (RealDictCursor rows)
DbGetPlans(table, uid) ==
    OrderByCreatedDesc({[id |-> table[i].id, plan_name |-> table[i].plan_name,
                         plan_data |-> table[i].plan_data,
                         created_at |-> table[i].created_at] :
                            i \in {j \in 1..Len(table) : table[j].user_id = uid}})

\* json.dumps(profile_data)
ProfileDump(profile) == [k \in DOMAIN profile |-> VStr(profile[k])]

\* DatabaseManager.save_profile, the statements: UPDATE the rows of the user
\* if SELECT finds one, else INSERT
DbSaveProfile(table, uid, profile) ==
    IF \E i \in 1..Len(table) : table[i].user_id = uid
    THEN [i \in 1..Len(table) |->
            IF table[i].user_id = uid
            THEN [user_id |-> uid, profile_data |-> ProfileDump(profile)]
            ELSE table[i]]
    ELSE Append(table, [user_id |-> uid, profile_data |-> ProfileDump(profile)])

\* ------------------------------------------- calendar_agent.py: dates

\* a datetime: the calendar date and the time of day in minutes
DateTime(y, m, d, hm) == [y |-> y, m |-> m, d |-> d, hm |-> hm]

IsLeap(y) == (y % 4 = 0 /\ y % 100 # 0) \/ y % 400 = 0

DaysInMonth(y, m) ==
    IF m = 2 THEN (IF IsLeap(y) THEN 29 ELSE 28)
    ELSE IF m \in {4, 6, 9, 11} THEN 30
    ELSE 31

\* dt + timedelta(days=1)
NextDay(dt) ==
    IF dt.d < DaysInMonth(dt.y, dt.m) THEN [dt EXCEPT !.d = dt.d + 1]
    ELSE IF dt.m < 12 THEN [dt EXCEPT !.m = dt.m + 1, !.d = 1]
    ELSE [dt EXCEPT !.y = dt.y + 1, !.m = 1, !.d = 1]

\* Mutant: every month is taken to have 30 days.
AddDays_ThirtyDayMonths(dt, n) ==
    LET days == (dt.d - 1) + n
        months == (dt.m - 1) + (days \div 30)
    IN  [dt EXCEPT !.d = (days % 30) + 1, !.m = (months % 12) + 1,
                   !.y = dt.y + (months \div 12)]

\* dt + timedelta(days=n), n >= 0
RECURSIVE AddDays(_, _)
AddDays(dt, n) == IF n = 0 THEN dt ELSE AddDays(NextDay(dt), n - 1)

\* n written with at least w digits (%m, %d, %Y of strftime)
RECURSIVE ZeroPad(_, _)
ZeroPad(digits, w) == IF Len(digits) >= w THEN digits ELSE ZeroPad(<<"0">> \o digits, w)

\* start_date.strftime('%Y%m%d')
DateStamp(dt) ==
    ZeroPad(NatToStr(dt.y), 4) \o ZeroPad(NatToStr(dt.m), 2) \o ZeroPad(NatToStr(dt.d), 2)

\* datetime.strptime(s, "%Y-%m-%d"): four digits, one or two, one or two,
\* naming a day that exists; [ok |-> FALSE] is ValueError
ParseDate(s) ==
    LET parts == Split(s, <<"-">>)
        AllDigits(x) == x # <<>> /\ \A i \in 1..Len(x) : IsDigit(x[i])
    IN  IF /\ Len(parts) = 3
           /\ \A k \in 1..3 : AllDigits(parts[k])
           /\ Len(parts[1]) = 4
           /\ Len(parts[2]) <= 2
           /\ Len(parts[3]) <= 2
           /\ DigitsVal(parts[2], 0) \in 1..12
           /\ DigitsVal(parts[3], 0) \in
                  1..DaysInMonth(DigitsVal(parts[1], 0), DigitsVal(parts[2], 0))
        THEN [ok |-> TRUE,
              val |-> DateTime(DigitsVal(parts[1], 0), DigitsVal(parts[2], 0),
                               DigitsVal(parts[3], 0), 0)]
        ELSE [ok |-> FALSE, val |-> DateTime(1, 1, 1, 0)]

\* -------------------------------- calendar_agent.py: CalendarAgent

\* calendar_name.replace(' ', '_')
Underscored(name) == [i \in 1..Len(name) |-> IF name[i] = " " THEN "_" ELSE name[i]]

\* os.path.join(output_dir, f"{name}_{stamp}.ics")
CalendarPath(calendar_name, start_date) ==
    <<"calendars", "/">> \o Underscored(calendar_name) \o <<"_">>
        \o DateStamp(start_date) \o <<".ics">>

\* the description loop raises KeyError on an exercise without name, sets or reps
DescriptionRaises(workout) ==
    \E j \in 1..Len(workout.exercises) :
        ~({"name", "sets", "reps"} \subseteq DOMAIN workout.exercises[j])

\* the description of an event: the intensity, then a line per exercise with
\* its rest period when it has one
Description(workout) ==
    [intensity |-> workout.intensity,
     lines |-> [j \in 1..Len(workout.exercises) |->
                   LET x == workout.exercises[j]
                   IN  [name |-> x.name, sets |-> x.sets, reps |-> x.reps,
                        rest |-> IF "rest_period" \in DOMAIN x THEN x.rest_period
                                 ELSE <<>>]]]

\* the event of workout_plans[i] (1-based here, i - 1 in the code): uid is a
\* fresh uuid4, told apart by the index
WorkoutEvent(workout_plans, i, start_date, workout_duration_minutes) ==
    [name |-> <<"Workout", ":", " ">> \o workout_plans[i].day,
     description |-> Description(workout_plans[i]),
     begin |-> AddDays(start_date, i - 1),
     duration |-> workout_duration_minutes,
     uid |-> i]

workout_duration_minutes_default == 60

\* CalendarAgent.create_workout_calendar(workout_plans, start_date,
\* calendar_name, workout_duration_minutes): the events added to cal.events (a
\* set) and the path written, or raised when an exercise lacks a key or open()
\* fails (writable = FALSE)
create_workout_calendar(workout_plans, start_date, calendar_name, workout_duration_minutes, writable) ==
    IF (\E i \in 1..Len(workout_plans) : DescriptionRaises(workout_plans[i]))
       \/ ~writable
    THEN [raised |-> TRUE, path |-> <<>>, events |-> {}]
    ELSE [raised |-> FALSE,
          path |-> CalendarPath(calendar_name, start_date),
          events |-> {WorkoutEvent(workout_plans, i, start_date,
                                   workout_duration_minutes) :
                         i \in 1..Len(workout_plans)}]

\* the output directory after f.write(str(cal)): a file of that path is replaced
Written(dir, r) ==
    IF r.raised THEN dir
    ELSE [f \in (DOMAIN dir) \cup {r.path} |-> IF f = r.path THEN r.events ELSE dir[f]]

\* a create_workout_calendar call as it is logged: its arguments (given tells
\* whether workout_duration_minutes was passed) and what it gave
CalendarCall(workout_plans, start_date, calendar_name, given, minutes, r) ==
    [workout_plans |-> workout_plans, start_date |-> start_date,
     calendar_name |-> calendar_name, given |-> given, minutes |-> minutes,
     raised |-> r.raised, path |-> r.path]

\* ------------------------------------------------------- app.py helpers

\* Mutant: the index is used as it was typed, 1-based taken for 0-based.
PyIndex_OneTooFar(seq, i) ==
    IF 0 <= i + 1 /\ i + 1 < Len(seq) THEN [ok |-> TRUE, val |-> seq[i + 2]]
    ELSE [ok |-> FALSE, val |-> <<>>]

\* seq[i] of a Python list: 0-based, negative i counts from the end;
\* ok = FALSE is IndexError
PyIndex(seq, i) ==
    IF 0 <= i /\ i < Len(seq) THEN [ok |-> TRUE, val |-> seq[i + 1]]
    ELSE IF i < 0 /\ 0 - i <= Len(seq) THEN [ok |-> TRUE, val |-> seq[Len(seq) + i + 1]]
    ELSE [ok |-> FALSE, val |-> <<>>]

\* format_workout_plan raises KeyError when an exercise lacks name, sets or reps
FormatWorkoutRaises(plans) ==
    \E i \in 1..Len(plans) : \E j \in 1..Len(plans[i].exercises) :
        ~({"name", "sets", "reps"} \subseteq DOMAIN plans[i].exercises[j])

\* format_diet_plan raises KeyError when a meal's macros lack protein, carbs or fat
FormatDietRaises(plans) ==
    \E i \in 1..Len(plans) :
        ~({"protein", "carbs", "fat"} \subseteq DOMAIN plans[i].macros)

DefaultDays == 4
DefaultLevel == <<"intermediate">>

\* Mutant: no default after the except; a days: token that is no integer gives 0.
AppDays_NoDefaultOnError(m) ==
    IF Contains(m, <<"days", ":">>)
    THEN LET w == Words(Split(m, <<"days", ":">>)[2])
         IN  IF w = <<>> THEN 0
             ELSE IF ParseInt(w[1]).ok THEN ParseInt(w[1]).val ELSE 0
    ELSE DefaultDays

\* process_chat_message: days = int(message.split("days:")[1].split()[0]),
\* 4 when the token is missing or int() / [0] raises
AppDays(m) ==
    IF Contains(m, <<"days", ":">>)
    THEN LET w == Words(Split(m, <<"days", ":">>)[2])
         IN  IF w = <<>> THEN DefaultDays
             ELSE IF ParseInt(w[1]).ok THEN ParseInt(w[1]).val ELSE DefaultDays
    ELSE DefaultDays

\* process_chat_message: level, "intermediate" unless the word after "level:"
\* is one of the three levels
AppLevel(m) ==
    IF Contains(Lower(m), <<"level", ":">>)
    THEN LET w == Words(Strip(Split(Lower(m), <<"level", ":">>)[2]))
         IN  IF w # <<>> /\ w[1] \in FitnessLevels THEN w[1] ELSE DefaultLevel
    ELSE DefaultLevel

\* process_chat_message: calories = int(message.split("calories:")[1].split()[0])
AppCalories(m) ==
    IF Contains(m, <<"calories", ":">>)
    THEN LET w == Words(Split(m, <<"calories", ":">>)[2])
         IN  IF w = <<>> THEN DefaultCalories
             ELSE IF ParseInt(w[1]).ok THEN ParseInt(w[1]).val ELSE DefaultCalories
    ELSE DefaultCalories

\* process_chat_message: the plan name, message.lower().split("name:")[1].strip()
\* when "name:" is in the lowered message
AppPlanName(m, default) ==
    IF Contains(Lower(m), <<"name", ":">>)
    THEN Strip(Split(Lower(m), <<"name", ":">>)[2])
    ELSE default

\* f"{len(current_workout_plan)}-Day Workout Plan"
DefaultWorkoutName(plans) ==
    IntToStr(Len(plans)) \o <<"-Day", " ", "Workout", " ", "Plan">>

\* f"Diet Plan ({datetime.now().strftime('%Y-%m-%d')})"
DefaultDietName == <<"Diet", " ", "Plan", " ", "(", "today", ")">>

\* process_chat_message, load: the text after the first ":" if the message has
\* one, else after the first "plan"; ok = FALSE is IndexError
LoadNumberPart(m) ==
    LET ps == IF Contains(m, <<":">>) THEN Split(m, <<":">>) ELSE Split(m, <<"plan">>)
    IN  IF Len(ps) < 2 THEN [ok |-> FALSE, val |-> <<>>]
        ELSE [ok |-> TRUE, val |-> Strip(ps[2])]

\* process_chat_message, load: int(number_part); ok = FALSE is the ValueError
\* or IndexError the rule catches
LoadNumber(m) ==
    LET part == LoadNumberPart(m)
    IN  IF part.ok THEN ParseInt(part.val) ELSE [ok |-> FALSE, val |-> 0]

\* load_workout_plan(plan_index): the plans rebuilt from the selected row, or
\* ok = FALSE when indexing or a constructor raised
LoadWorkoutPlan(plan_index) ==
    LET sel == PyIndex(saved_workout_plans, plan_index)
        data == sel.val.plan_data.v
    IN  IF saved_workout_plans = <<>> \/ ~sel.ok
        THEN [ok |-> FALSE, plans |-> <<>>, name |-> <<>>]
        ELSE IF \A i \in 1..Len(data) : ValidWorkout(data[i])
        THEN [ok |-> TRUE, plans |-> [i \in 1..Len(data) |-> WorkoutPlan(data[i])],
              name |-> sel.val.plan_name]
        ELSE [ok |-> FALSE, plans |-> <<>>, name |-> <<>>]

\* load_diet_plan(plan_index)
LoadDietPlan(plan_index) ==
    LET sel == PyIndex(saved_diet_plans, plan_index)
        data == sel.val.plan_data.v
    IN  IF saved_diet_plans = <<>> \/ ~sel.ok
        THEN [ok |-> FALSE, plans |-> <<>>, name |-> <<>>]
        ELSE IF \A i \in 1..Len(data) : ValidDiet(data[i])
        THEN [ok |-> TRUE, plans |-> [i \in 1..Len(data) |-> DietPlan(data[i])],
              name |-> sel.val.plan_name]
        ELSE [ok |-> FALSE, plans |-> <<>>, name |-> <<>>]

\* the loop over update_text.split(","): each segment with a ":" is split at
\* its first ":" into a stripped key and a stripped value; a later segment
\* overwrites an earlier one with the same key
RECURSIVE UpdatesOf(_, _)
UpdatesOf(pairs, acc) ==
    IF pairs = <<>> THEN acc
    ELSE LET pair == Head(pairs)
             kv == Split1(pair, <<":">>)
         IN  UpdatesOf(Tail(pairs),
                 IF Contains(pair, <<":">>)
                 THEN DictSet(acc, Strip(kv[1]), Strip(kv[2]))
                 ELSE acc)

\* updates of an "update profile" message: the command text is removed with
\* message.replace("update profile", "")
ProfileUpdates(m) ==
    UpdatesOf(Split(Strip(Remove(m, <<"update", " ", "profile">>)), <<",">>), NoProfile)

\* for key, value in profile_data.items(): user_profile[key] = value
MergeProfile(profile, updates) ==
    [k \in (DOMAIN profile) \cup (DOMAIN updates) |->
        IF k \in DOMAIN updates THEN updates[k] ELSE profile[k]]

\* the backend outcomes of a chat command: llm.invoke raising, or one of two
\* arrays of one valid element
ChatWorkoutReplies ==
    {BackendError}
    \cup {VList(<<Obj({<<"day", VStr(<<d>>)>>, <<"exercises", VList(<<ExInt>>)>>,
                       <<"duration", VStr(<<"3", "0", " ", "min">>)>>,
                       <<"intensity", VStr(<<"high">>)>>})>>) : d \in {"Mon", "Tue"}}

ChatDietReplies ==
    {BackendError}
    \cup {VList(<<Obj({<<"meal_type", VStr(<<t>>)>>,
                       <<"foods", VList(<<VStr(<<"Rice">>)>>)>>,
                       <<"calories", VStr(<<"1", ",", "2", "0", "0">>)>>,
                       <<"macros", MacrosInt>>})>>) : t \in {"Lunch", "Dinner"}}

\* ------------------------------------- app.py: process_chat_message rules

\* what a rule leaves alone besides the reply
Respond(m, r, calls) ==
    /\ message' = m
    /\ response' = r
    /\ gateway_calls' = calls
    /\ chat_history' = AppendExchange(chat_history, m, r)

GenericError == [kind |-> "error"]

\* create workout: create_workout_plan(days, level) stores the plan, then the
\* reply is formatted; replies are the answers the backend can give
AppCreateWorkoutFrom(m, replies) ==
    \E reply \in replies, days \in {AppDays(m)}, level \in {AppLevel(m)} :
        \E r \in {AgentCreateWorkoutPlan(days, level, reply)} :
            /\ current_workout_plan' = IF r.raised THEN current_workout_plan ELSE r.plans
            /\ Respond(m, IF r.raised THEN [kind |-> "create_workout_failed"]
                          ELSE IF FormatWorkoutRaises(r.plans) THEN GenericError
                          ELSE [kind |-> "created_workout", days |-> days,
                                level |-> level], <<>>)
            /\ UNCHANGED <<genVars, gwVars, calVars, dbVars, user_id, current_diet_plan, user_profile,
                           saved_workout_plans, saved_diet_plans>>

\* create workout, the backend answering one of ChatWorkoutReplies
AppCreateWorkout(m) == AppCreateWorkoutFrom(m, ChatWorkoutReplies)

\* create diet
AppCreateDiet(m) ==
    \E reply \in ChatDietReplies, calories \in {AppCalories(m)} :
        \E r \in {AgentCreateDietPlan(calories, reply)} :
            /\ current_diet_plan' = IF r.raised THEN current_diet_plan ELSE r.plans
            /\ Respond(m, IF r.raised THEN [kind |-> "create_diet_failed"]
                          ELSE IF FormatDietRaises(r.plans) THEN GenericError
                          ELSE [kind |-> "created_diet", calories |-> calories], <<>>)
            /\ UNCHANGED <<genVars, gwVars, calVars, dbVars, user_id, current_workout_plan, user_profile,
                           saved_workout_plans, saved_diet_plans>>

\* Mutant: the rule saves without asking for a current plan.
AppSaveWorkout_NoPlanCheck(m) ==
    \E name \in {AppPlanName(m, DefaultWorkoutName(current_workout_plan))} :
    \E table \in {DbInsertPlan(db_workout_plans, user_id, name,
                                WorkoutPlanData(current_workout_plan))} :
        /\ db_workout_plans' = table
        /\ db_now' = db_now + 1
        /\ saved_workout_plans' = DbGetPlans(table, user_id)
        /\ Respond(m, [kind |-> "saved_workout", plan_name |-> name],
                   <<"save_workout_plan", "get_workout_plans">>)
        /\ UNCHANGED <<genVars, gwVars, calVars, db_profiles, db_diet_plans, user_id,
                       current_workout_plan, current_diet_plan, user_profile,
                       saved_diet_plans>>

\* save workout: needs a current plan; save_workout_plan(plan_name) inserts and,
\* if the insert gave an id > 0, reloads the saved list (kept when the reload
\* comes back empty)
AppSaveWorkout(m) ==
    IF current_workout_plan = <<>>
    THEN /\ Respond(m, [kind |-> "no_workout_to_save"], <<>>)
         /\ UNCHANGED <<genVars, gwVars, calVars, sessionVars, dbVars>>
    ELSE \E insertOk \in BOOLEAN, selectOk \in BOOLEAN,
            name \in {AppPlanName(m, DefaultWorkoutName(current_workout_plan))} :
         \E table \in {DbInsertPlan(db_workout_plans, user_id, name,
                                     WorkoutPlanData(current_workout_plan))} :
         \E rows \in {IF selectOk THEN DbGetPlans(table, user_id) ELSE <<>>} :
            IF insertOk
            THEN /\ db_workout_plans' = table
                 /\ db_now' = db_now + 1
                 /\ saved_workout_plans' = IF rows # <<>> THEN rows ELSE saved_workout_plans
                 /\ Respond(m, [kind |-> "saved_workout", plan_name |-> name],
                            <<"save_workout_plan", "get_workout_plans">>)
                 /\ UNCHANGED <<genVars, gwVars, calVars, db_profiles, db_diet_plans, user_id,
                                current_workout_plan, current_diet_plan, user_profile,
                                saved_diet_plans>>
            ELSE /\ Respond(m, [kind |-> "save_workout_failed"], <<"save_workout_plan">>)
                 /\ UNCHANGED <<genVars, gwVars, calVars, sessionVars, dbVars>>

\* save diet
AppSaveDiet(m) ==
    IF current_diet_plan = <<>>
    THEN /\ Respond(m, [kind |-> "no_diet_to_save"], <<>>)
         /\ UNCHANGED <<genVars, gwVars, calVars, sessionVars, dbVars>>
    ELSE \E insertOk \in BOOLEAN, selectOk \in BOOLEAN,
            name \in {AppPlanName(m, DefaultDietName)} :
         \E table \in {DbInsertPlan(db_diet_plans, user_id, name,
                                     DietPlanData(current_diet_plan))} :
         \E rows \in {IF selectOk THEN DbGetPlans(table, user_id) ELSE <<>>} :
            IF insertOk
            THEN /\ db_diet_plans' = table
                 /\ db_now' = db_now + 1
                 /\ saved_diet_plans' = IF rows # <<>> THEN rows ELSE saved_diet_plans
                 /\ Respond(m, [kind |-> "saved_diet", plan_name |-> name],
                            <<"save_diet_plan", "get_diet_plans">>)
                 /\ UNCHANGED <<genVars, gwVars, calVars, db_profiles, db_workout_plans, user_id,
                                current_workout_plan, current_diet_plan, user_profile,
                                saved_workout_plans>>
            ELSE /\ Respond(m, [kind |-> "save_diet_failed"], <<"save_diet_plan">>)
                 /\ UNCHANGED <<genVars, gwVars, calVars, sessionVars, dbVars>>

\* list workout plans / list diet plans: entry i + 1 is saved plan i
AppListWorkout(m) ==
    /\ Respond(m, IF saved_workout_plans = <<>> THEN [kind |-> "no_saved_workout_plans"]
                  ELSE [kind |-> "workout_list",
                        names |-> [i \in 1..Len(saved_workout_plans) |->
                                      saved_workout_plans[i].plan_name]], <<>>)
    /\ UNCHANGED <<genVars, gwVars, calVars, sessionVars, dbVars>>

AppListDiet(m) ==
    /\ Respond(m, IF saved_diet_plans = <<>> THEN [kind |-> "no_saved_diet_plans"]
                  ELSE [kind |-> "diet_list",
                        names |-> [i \in 1..Len(saved_diet_plans) |->
                                      saved_diet_plans[i].plan_name]], <<>>)
    /\ UNCHANGED <<genVars, gwVars, calVars, sessionVars, dbVars>>

\* load workout: plan_index = int(number_part) - 1, then load_workout_plan
AppLoadWorkout(m) ==
    \E n \in {LoadNumber(m)} : \E r \in {LoadWorkoutPlan(n.val - 1)} :
        IF saved_workout_plans = <<>>
        THEN /\ Respond(m, [kind |-> "no_saved_workout_plans"], <<>>)
             /\ UNCHANGED <<genVars, gwVars, calVars, sessionVars, dbVars>>
        ELSE IF ~n.ok
        THEN /\ Respond(m, [kind |-> "load_not_understood"], <<>>)
             /\ UNCHANGED <<genVars, gwVars, calVars, sessionVars, dbVars>>
        ELSE IF ~r.ok
        THEN /\ Respond(m, [kind |-> "load_failed"], <<>>)
             /\ UNCHANGED <<genVars, gwVars, calVars, sessionVars, dbVars>>
        ELSE /\ current_workout_plan' = r.plans
             /\ Respond(m, IF FormatWorkoutRaises(r.plans) THEN GenericError
                           ELSE [kind |-> "loaded_workout", plan_name |-> r.name], <<>>)
             /\ UNCHANGED <<genVars, gwVars, calVars, dbVars, user_id, current_diet_plan, user_profile,
                            saved_workout_plans, saved_diet_plans>>

\* load diet
AppLoadDiet(m) ==
    \E n \in {LoadNumber(m)} : \E r \in {LoadDietPlan(n.val - 1)} :
        IF saved_diet_plans = <<>>
        THEN /\ Respond(m, [kind |-> "no_saved_diet_plans"], <<>>)
             /\ UNCHANGED <<genVars, gwVars, calVars, sessionVars, dbVars>>
        ELSE IF ~n.ok
        THEN /\ Respond(m, [kind |-> "load_not_understood"], <<>>)
             /\ UNCHANGED <<genVars, gwVars, calVars, sessionVars, dbVars>>
        ELSE IF ~r.ok
        THEN /\ Respond(m, [kind |-> "load_failed"], <<>>)
             /\ UNCHANGED <<genVars, gwVars, calVars, sessionVars, dbVars>>
        ELSE /\ current_diet_plan' = r.plans
             /\ Respond(m, IF FormatDietRaises(r.plans) THEN GenericError
                           ELSE [kind |-> "loaded_diet", plan_name |-> r.name], <<>>)
             /\ UNCHANGED <<genVars, gwVars, calVars, dbVars, user_id, current_workout_plan, user_profile,
                            saved_workout_plans, saved_diet_plans>>

\* view profile
AppViewProfile(m) ==
    /\ Respond(m, IF DOMAIN user_profile = {} THEN [kind |-> "no_profile"]
                  ELSE [kind |-> "profile", profile |-> user_profile], <<>>)
    /\ UNCHANGED <<genVars, gwVars, calVars, sessionVars, dbVars>>

\* update profile: no parsed pair gives the instruction; else update_profile
\* merges into the session profile and then calls save_profile
AppUpdateProfile(m) ==
    \E updates \in {ProfileUpdates(m)} : \E merged \in {MergeProfile(user_profile, updates)} :
        IF DOMAIN updates = {}
        THEN /\ Respond(m, [kind |-> "update_instruction"], <<>>)
             /\ UNCHANGED <<genVars, gwVars, calVars, sessionVars, dbVars>>
        ELSE \E saveOk \in BOOLEAN :
             /\ user_profile' = merged
             /\ db_profiles' = IF saveOk THEN DbSaveProfile(db_profiles, user_id, merged)
                               ELSE db_profiles
             /\ Respond(m, IF saveOk THEN [kind |-> "profile_updated", updates |-> updates]
                           ELSE [kind |-> "update_failed"], <<"save_profile">>)
             /\ UNCHANGED <<genVars, gwVars, calVars, db_workout_plans, db_diet_plans, db_now, user_id,
                            current_workout_plan, current_diet_plan,
                            saved_workout_plans, saved_diet_plans>>

\* export calendar / create calendar: points to the Calendar tab
AppExportCalendar(m) ==
    /\ Respond(m, IF current_workout_plan = <<>> THEN [kind |-> "no_workout_to_export"]
                  ELSE [kind |-> "go_to_calendar_tab"], <<>>)
    /\ UNCHANGED <<genVars, gwVars, calVars, sessionVars, dbVars>>

\* the readings of datetime.now()
Nows == {DateTime(2024, 2, 28, 570), DateTime(2023, 12, 31, 0)}

\* Mutant: the first workout is dated tomorrow.
ScheduleLines_FromTomorrow(plan, start_date) ==
    [i \in 1..Len(plan) |-> [date |-> AddDays(start_date, i), day |-> plan[i].day]]

\* the preview of a schedule: for i, workout in enumerate(plan) a line with
\* start_date + timedelta(days=i) and workout.day
ScheduleLines(plan, start_date) ==
    [i \in 1..Len(plan) |-> [date |-> AddDays(start_date, i - 1), day |-> plan[i].day]]

\* schedule workout: one preview line per day of the current plan, from
\* datetime.now() on
AppScheduleWorkout(m) ==
    \E now \in Nows :
        /\ Respond(m, IF current_workout_plan = <<>>
                      THEN [kind |-> "no_workout_to_schedule"]
                      ELSE [kind |-> "schedule", today |-> now,
                            lines |-> ScheduleLines(current_workout_plan, now)], <<>>)
        /\ UNCHANGED <<genVars, gwVars, calVars, sessionVars, dbVars>>

\* create_workout_plan(days, fitness_level), the form of the Workout Plan tab:
\* the agent's plan becomes the current plan; an exception becomes the failure
\* result. No chat message is handled.
create_workout_plan(days, fitness_level) ==
    \E reply \in {BackendError, Garbage} :
        \E r \in {AgentCreateWorkoutPlan(days, fitness_level, reply)} :
            /\ current_workout_plan' = IF r.raised THEN current_workout_plan ELSE r.plans
            /\ Respond(<<>>, [kind |-> IF r.raised THEN "generate_failed" ELSE "generated"],
                       <<>>)
            /\ UNCHANGED <<genVars, gwVars, calVars, dbVars, user_id, current_diet_plan,
                           user_profile, saved_workout_plans, saved_diet_plans>>

\* export_to_calendar(calendar_name, start_date), the form of the Calendar
\* tab: create_workout_calendar for the current plan; an exception becomes
\* the failure result. No chat message is handled.
ExportToCalendar(calendar_name, start_date) ==
    /\ current_workout_plan # <<>>
    /\ \E writable \in BOOLEAN :
       \E r \in {create_workout_calendar(current_workout_plan, start_date, calendar_name,
                                         workout_duration_minutes_default, writable)} :
        /\ calendar_log' = Append(calendar_log,
               CalendarCall(current_workout_plan, start_date, calendar_name, FALSE,
                            workout_duration_minutes_default, r))
        /\ calendar_dir' = Written(calendar_dir, r)
        /\ Respond(<<>>, [kind |-> IF r.raised THEN "export_failed" ELSE "exported"], <<>>)
        /\ UNCHANGED <<genVars, gwVars, sessionVars, dbVars, calendar_files>>

\* help, and the fall-through to generate_llm_response
AppHelp(m) ==
    /\ Respond(m, [kind |-> "help"], <<>>)
    /\ UNCHANGED <<genVars, gwVars, calVars, sessionVars, dbVars>>

\* an answer of the backend to a chat question: plain text
LlmText == [t |-> "text", v |-> <<"Stretch", " ", "daily">>]

\* generate_llm_response, what it returns for an answer of the backend: the
\* advisory text when llm.stream / llm.invoke raised or the answer is blank; for
\* an answer "{...}" that parses to an object, parsed_json["message"] or
\* parsed_json["text"] whatever its type; else the answer text
LlmReturn(answer) ==
    IF answer.t = "error" \/ (answer.t = "text" /\ Strip(answer.v) = <<>>)
    THEN [kind |-> "llm_advisory"]
    ELSE IF answer.t = "dict" /\ "message" \in DOMAIN answer.v
    THEN [kind |-> "llm", value |-> answer.v["message"]]
    ELSE IF answer.t = "dict" /\ "text" \in DOMAIN answer.v
    THEN [kind |-> "llm", value |-> answer.v["text"]]
    ELSE [kind |-> "llm", value |-> VStr(<<"answer">>)]

\* the fall-through to generate_llm_response; llm_answers are the answers the
\* backend can give
AppLlmResponseFrom(m, llm_answers) ==
    /\ \E answer \in llm_answers : Respond(m, LlmReturn(answer), <<>>)
    /\ UNCHANGED <<genVars, gwVars, calVars, sessionVars, dbVars>>

\* the fall-through, the backend answering plain text
AppLlmResponse(m) == AppLlmResponseFrom(m, {LlmText})

\* process_chat_message(message): the first rule whose test the lowered
\* message passes; workout_replies and llm_answers are the answers the backend
\* can give to a create workout and to a chat question
ProcessChatMessageFrom(m, workout_replies, llm_answers) ==
    \E message_lower \in {Lower(m)} :
        IF StartsWith(message_lower, <<"create", " ", "workout">>)
           \/ StartsWith(message_lower, <<"create", " ", "workout", " ", "plan">>)
        THEN AppCreateWorkoutFrom(m, workout_replies)
        ELSE IF StartsWith(message_lower, <<"create", " ", "diet">>)
                \/ StartsWith(message_lower, <<"create", " ", "diet", " ", "plan">>)
        THEN AppCreateDiet(m)
        ELSE IF StartsWith(message_lower, <<"save", " ", "workout">>)
        THEN AppSaveWorkout(m)
        ELSE IF StartsWith(message_lower, <<"save", " ", "diet">>)
        THEN AppSaveDiet(m)
        ELSE IF StartsWith(message_lower, <<"list", " ", "workout">>)
                \/ message_lower = <<"list", " ", "workout", "s">>
        THEN AppListWorkout(m)
        ELSE IF StartsWith(message_lower, <<"list", " ", "diet">>)
                \/ message_lower = <<"list", " ", "diet", "s">>
        THEN AppListDiet(m)
        ELSE IF StartsWith(message_lower, <<"load", " ", "workout">>)
        THEN AppLoadWorkout(m)
        ELSE IF StartsWith(message_lower, <<"load", " ", "diet">>)
        THEN AppLoadDiet(m)
        ELSE IF StartsWith(message_lower, <<"view", " ", "profile">>)
                \/ message_lower = <<"profile">>
        THEN AppViewProfile(m)
        ELSE IF StartsWith(message_lower, <<"update", " ", "profile">>)
        THEN AppUpdateProfile(m)
        ELSE IF StartsWith(message_lower, <<"export", " ", "calendar">>)
                \/ StartsWith(message_lower, <<"create", " ", "calendar">>)
        THEN AppExportCalendar(m)
        ELSE IF StartsWith(message_lower, <<"schedule", " ", "workout">>)
        THEN AppScheduleWorkout(m)
        ELSE IF message_lower = <<"help">>
        THEN AppHelp(m)
        ELSE AppLlmResponseFrom(m, llm_answers)

\* process_chat_message(message), the backend answering one of ChatWorkoutReplies
\* to a create workout and plain text to a question
ProcessChatMessage(m) == ProcessChatMessageFrom(m, ChatWorkoutReplies, {LlmText})

\* ------------------------------------ specification: plans in the web chat

CreateWorkoutMsgs ==
    {<<"Create", " ", "workout", " ", "plan", " ", "days", ":", " ", "1">>}

CreateDietMsgs == {<<"create", " ", "diet", " ", "plan">>}

SaveWorkoutMsgs == {<<"save", " ", "workout">>}

SaveDietMsgs == {<<"save", " ", "diet">>}

ListMsgs == {<<"list", " ", "workout", " ", "plan", "s">>, <<"list", " ", "diet", "s">>}

\* the numbers typed after "load workout plan:"
LoadNumbers == (0 - MaxSaved - 1)..(MaxSaved + 1)

\* the message "load workout plan: n" / "load diet plan: n"
LoadWorkoutMsg(n) == <<"load", " ", "workout", " ", "plan", ":", " ">> \o IntToStr(n)
LoadDietMsg(n) == <<"load", " ", "diet", " ", "plan", ":", " ">> \o IntToStr(n)

\* load messages whose index int() rejects or that carry none
UnparsableLoadMsgs ==
    {<<"load", " ", "workout", " ", "plan", ":", " ", "abc">>,
     <<"load", " ", "workout">>}

LoadWorkoutMsgs ==
    {LoadWorkoutMsg(n) : n \in LoadNumbers}
    \cup UnparsableLoadMsgs
    \cup {<<"load", " ", "workout", " ", "plan", " ", "1">>,
          <<"Load", " ", "Workout", " ", "Plan", ":", "1", " ">>}

LoadDietMsgs ==
    {LoadDietMsg(n) : n \in 0..(MaxSaved + 1)}
    \cup {<<"load", " ", "diet", " ", "plan", ":", " ", "abc">>}

ChatCreateWorkout == \E m \in CreateWorkoutMsgs : ProcessChatMessage(m)

ChatCreateDiet == \E m \in CreateDietMsgs : ProcessChatMessage(m)

ChatSaveWorkout ==
    /\ Len(db_workout_plans) + Len(db_diet_plans) < MaxSaved
    /\ \E m \in SaveWorkoutMsgs : ProcessChatMessage(m)

ChatSaveDiet ==
    /\ Len(db_workout_plans) + Len(db_diet_plans) < MaxSaved
    /\ \E m \in SaveDietMsgs : ProcessChatMessage(m)

ChatList == \E m \in ListMsgs : ProcessChatMessage(m)

ChatLoadWorkout == \E m \in LoadWorkoutMsgs : ProcessChatMessage(m)

ChatLoadDiet == \E m \in LoadDietMsgs : ProcessChatMessage(m)

PlansNext ==
    \/ ChatCreateWorkout
    \/ ChatCreateDiet
    \/ ChatSaveWorkout
    \/ ChatSaveDiet
    \/ ChatList
    \/ ChatLoadWorkout
    \/ ChatLoadDiet

SpecPlans == Init /\ [][PlansNext]_vars

\* ---------------------------------- specification: profile in the web chat

LowerPrefix == <<"update", " ", "profile">>
CapitalPrefix == <<"Update", " ", "Profile">>

\* what the user writes after the command: lists of <<key, value>>
AgeGoals == << <<<<"age">>, <<"3", "1">>>>, <<<<"goals">>, <<"lose", " ", "fat">>>> >>
AgeOnly == << <<<<"age">>, <<"4", "0">>>> >>
GoalsQuoting == << <<<<"goals">>, <<"update", " ", "profile", " ", "daily">>>> >>
TimeOfDay == << <<<<"time">>, <<"6", ":", "3", "0">>>> >>

PairLists == {AgeGoals, AgeOnly, GoalsQuoting, TimeOfDay}

\* "k1: v1, k2: v2", with pad around every key and value
RECURSIVE PairsText(_, _)
PairsText(pairs, pad) ==
    IF pairs = <<>> THEN <<>>
    ELSE pad \o Head(pairs)[1] \o pad \o <<":", " ">> \o Head(pairs)[2] \o pad
         \o (IF Len(pairs) > 1 THEN <<",", " ">> \o PairsText(Tail(pairs), pad)
             ELSE <<>>)

\* the message "<prefix> k1: v1, k2: v2"
UpdateMsg(prefix, pairs, pad) == prefix \o <<" ">> \o PairsText(pairs, pad)

\* update messages with no "key: value" segment
EmptyUpdateMsgs ==
    {LowerPrefix, LowerPrefix \o <<" ", "hello">>, LowerPrefix \o <<" ", ",", " ">>}

UpdateMsgs ==
    {UpdateMsg(LowerPrefix, ps, <<>>) : ps \in PairLists}
    \cup {UpdateMsg(LowerPrefix, AgeOnly, <<" ">>), UpdateMsg(CapitalPrefix, AgeOnly, <<>>)}
    \cup EmptyUpdateMsgs

ViewMsgs == {<<"View", " ", "profile">>}

ChatUpdateProfile == \E m \in UpdateMsgs : ProcessChatMessage(m)

ChatViewProfile == \E m \in ViewMsgs : ProcessChatMessage(m)

ProfileNext == ChatUpdateProfile \/ ChatViewProfile

SpecProfile == Init /\ [][ProfileNext]_vars

\* ------------------------------ interactive_chat.py: InteractiveChat (CLI)

\* InteractiveChat.__init__: get_or_create_user gives the id, or -1 when the
\* store is not reachable; a new user has no profile and no plans
CliInit ==
    /\ call = NoCall
    /\ result = NoResult
    /\ user_id \in {1, 0 - 1}
    /\ current_workout_plan = <<>>
    /\ current_diet_plan = <<>>
    /\ user_profile = NoProfile
    /\ saved_workout_plans = <<>>
    /\ saved_diet_plans = <<>>
    /\ message = <<>>
    /\ response = NoReply
    /\ gateway_calls = <<>>
    /\ chat_history = NotKept
    /\ db_profiles = <<>>
    /\ db_workout_plans = <<>>
    /\ db_diet_plans = <<>>
    /\ db_now = 1
    /\ db_users = IF user_id > 0 THEN <<[id |-> 1, username |-> <<"alice">>]>> ELSE <<>>
    /\ conn = IF user_id > 0 THEN "idle" ELSE "none"
    /\ gw_call = NoGwCall
    /\ gw_result = NoGwResult
    /\ logins = NoLogins
    /\ calendar_log = <<>>
    /\ calendar_dir = NoFiles
    /\ calendar_files = <<>>

\* InteractiveChat.view_profile
CliViewProfile(m) ==
    /\ Respond(m, IF DOMAIN user_profile = {} THEN [kind |-> "no_profile"]
                  ELSE [kind |-> "profile", profile |-> user_profile], <<>>)
    /\ UNCHANGED <<genVars, gwVars, calVars, sessionVars, dbVars>>

\* InteractiveChat.handle_profile_update: the parsed pairs are merged into
\* context["user_profile"], save_profile is called when user_id > 0, and the
\* reply lists the pairs
CliHandleProfileUpdate(m) ==
    \E updates \in {ProfileUpdates(m)} : \E merged \in {MergeProfile(user_profile, updates)} :
    \E saveOk \in BOOLEAN :
        /\ user_profile' = merged
        /\ db_profiles' = IF user_id > 0 /\ saveOk
                          THEN DbSaveProfile(db_profiles, user_id, merged)
                          ELSE db_profiles
        /\ Respond(m, [kind |-> "profile_updated", updates |-> updates],
                   IF user_id > 0 THEN <<"save_profile">> ELSE <<>>)
        /\ UNCHANGED <<genVars, gwVars, calVars, db_workout_plans, db_diet_plans, db_now, user_id,
                       current_workout_plan, current_diet_plan,
                       saved_workout_plans, saved_diet_plans>>

\* InteractiveChat.show_help
CliShowHelp(m) ==
    /\ Respond(m, [kind |-> "help"], <<>>)
    /\ UNCHANGED <<genVars, gwVars, calVars, sessionVars, dbVars>>

\* "exit" / "quit": db_manager.close(), then the goodbye
CliExit(m) ==
    /\ Respond(m, [kind |-> "goodbye"], <<"close">>)
    /\ UNCHANGED <<genVars, gwVars, calVars, sessionVars, dbVars>>

\* InteractiveChat.general_chat: the backend's text, or llm.invoke raising out
\* of process_message
CliGeneralChat(m) ==
    \E raised \in BOOLEAN :
        /\ Respond(m, IF raised THEN [kind |-> "raised"] ELSE [kind |-> "llm"], <<>>)
        /\ UNCHANGED <<genVars, gwVars, calVars, sessionVars, dbVars>>

\* handle_workout_creation: the word after "level:" of the lowered input,
\* whatever it is; "intermediate" when there is none
CliLevel(m) ==
    IF Contains(Lower(m), <<"level", ":">>)
    THEN LET w == Words(Strip(Split(Lower(m), <<"level", ":">>)[2]))
         IN  IF w # <<>> THEN w[1] ELSE DefaultLevel
    ELSE DefaultLevel

\* InteractiveChat.handle_workout_creation: create_workout_plan is not in a
\* try; its plan is stored in the context before the reply is formatted, and
\* formatting raises KeyError on an exercise without name, sets or reps
CliHandleWorkoutCreation(m) ==
    \E reply \in ChatWorkoutReplies, days \in {AppDays(m)}, level \in {CliLevel(m)} :
        \E r \in {AgentCreateWorkoutPlan(days, level, reply)} :
            /\ current_workout_plan' = IF r.raised THEN current_workout_plan ELSE r.plans
            /\ Respond(m, IF r.raised \/ FormatWorkoutRaises(r.plans) THEN [kind |-> "raised"]
                          ELSE [kind |-> "created_workout", days |-> days,
                                level |-> level], <<>>)
            /\ UNCHANGED <<genVars, gwVars, calVars, dbVars, user_id, current_diet_plan,
                           user_profile, saved_workout_plans, saved_diet_plans>>

\* InteractiveChat.handle_diet_creation
CliHandleDietCreation(m) ==
    \E reply \in ChatDietReplies, calories \in {AppCalories(m)} :
        \E r \in {AgentCreateDietPlan(calories, reply)} :
            /\ current_diet_plan' = IF r.raised THEN current_diet_plan ELSE r.plans
            /\ Respond(m, IF r.raised \/ FormatDietRaises(r.plans) THEN [kind |-> "raised"]
                          ELSE [kind |-> "created_diet", calories |-> calories], <<>>)
            /\ UNCHANGED <<genVars, gwVars, calVars, dbVars, user_id, current_workout_plan,
                           user_profile, saved_workout_plans, saved_diet_plans>>

\* the outcomes of a save_*_plan call seen from a handler: an id > 0, the
\* sentinel -1, or an exception that leaves the gateway
SaveOutcomes == {"id", "sentinel", "raised"}

\* InteractiveChat.handle_save_workout: needs a current plan and a user id > 0;
\* after save_workout_plan gave an id > 0, load_saved_plans reloads both lists
\* (each kept when its reload comes back empty)
CliHandleSaveWorkout(m) ==
    IF current_workout_plan = <<>>
    THEN /\ Respond(m, [kind |-> "no_workout_to_save"], <<>>)
         /\ UNCHANGED <<genVars, gwVars, calVars, sessionVars, dbVars>>
    ELSE IF user_id <= 0
    THEN /\ Respond(m, [kind |-> "no_user_session"], <<>>)
         /\ UNCHANGED <<genVars, gwVars, calVars, sessionVars, dbVars>>
    ELSE \E outcome \in SaveOutcomes, workoutsOk \in BOOLEAN, dietsOk \in BOOLEAN,
            name \in {AppPlanName(m, DefaultWorkoutName(current_workout_plan))} :
         \E table \in {DbInsertPlan(db_workout_plans, user_id, name,
                                     WorkoutPlanData(current_workout_plan))} :
         \E rows \in {IF workoutsOk THEN DbGetPlans(table, user_id) ELSE <<>>},
            diets \in {IF dietsOk THEN DbGetPlans(db_diet_plans, user_id) ELSE <<>>} :
            IF outcome = "id"
            THEN /\ db_workout_plans' = table
                 /\ db_now' = db_now + 1
                 /\ saved_workout_plans' = IF rows # <<>> THEN rows ELSE saved_workout_plans
                 /\ saved_diet_plans' = IF diets # <<>> THEN diets ELSE saved_diet_plans
                 /\ Respond(m, [kind |-> "saved_workout", plan_name |-> name],
                            <<"save_workout_plan", "get_workout_plans", "get_diet_plans">>)
                 /\ UNCHANGED <<genVars, gwVars, calVars, db_profiles, db_diet_plans,
                                user_id, current_workout_plan, current_diet_plan,
                                user_profile>>
            ELSE /\ Respond(m, IF outcome = "raised" THEN [kind |-> "raised"]
                               ELSE [kind |-> "save_workout_failed"],
                            <<"save_workout_plan">>)
                 /\ UNCHANGED <<genVars, gwVars, calVars, sessionVars, dbVars>>

\* InteractiveChat.handle_save_diet
CliHandleSaveDiet(m) ==
    IF current_diet_plan = <<>>
    THEN /\ Respond(m, [kind |-> "no_diet_to_save"], <<>>)
         /\ UNCHANGED <<genVars, gwVars, calVars, sessionVars, dbVars>>
    ELSE IF user_id <= 0
    THEN /\ Respond(m, [kind |-> "no_user_session"], <<>>)
         /\ UNCHANGED <<genVars, gwVars, calVars, sessionVars, dbVars>>
    ELSE \E outcome \in SaveOutcomes, workoutsOk \in BOOLEAN, dietsOk \in BOOLEAN,
            name \in {AppPlanName(m, DefaultDietName)} :
         \E table \in {DbInsertPlan(db_diet_plans, user_id, name,
                                     DietPlanData(current_diet_plan))} :
         \E rows \in {IF dietsOk THEN DbGetPlans(table, user_id) ELSE <<>>},
            workouts \in {IF workoutsOk THEN DbGetPlans(db_workout_plans, user_id)
                          ELSE <<>>} :
            IF outcome = "id"
            THEN /\ db_diet_plans' = table
                 /\ db_now' = db_now + 1
                 /\ saved_diet_plans' = IF rows # <<>> THEN rows ELSE saved_diet_plans
                 /\ saved_workout_plans' = IF workouts # <<>> THEN workouts
                                           ELSE saved_workout_plans
                 /\ Respond(m, [kind |-> "saved_diet", plan_name |-> name],
                            <<"save_diet_plan", "get_workout_plans", "get_diet_plans">>)
                 /\ UNCHANGED <<genVars, gwVars, calVars, db_profiles, db_workout_plans,
                                user_id, current_workout_plan, current_diet_plan,
                                user_profile>>
            ELSE /\ Respond(m, IF outcome = "raised" THEN [kind |-> "raised"]
                               ELSE [kind |-> "save_diet_failed"],
                            <<"save_diet_plan">>)
                 /\ UNCHANGED <<genVars, gwVars, calVars, sessionVars, dbVars>>

\* InteractiveChat.list_workout_plans / list_diet_plans
CliListWorkoutPlans(m) ==
    /\ Respond(m, IF saved_workout_plans = <<>> THEN [kind |-> "no_saved_workout_plans"]
                  ELSE [kind |-> "workout_list",
                        names |-> [i \in 1..Len(saved_workout_plans) |->
                                      saved_workout_plans[i].plan_name]], <<>>)
    /\ UNCHANGED <<genVars, gwVars, calVars, sessionVars, dbVars>>

CliListDietPlans(m) ==
    /\ Respond(m, IF saved_diet_plans = <<>> THEN [kind |-> "no_saved_diet_plans"]
                  ELSE [kind |-> "diet_list",
                        names |-> [i \in 1..Len(saved_diet_plans) |->
                                      saved_diet_plans[i].plan_name]], <<>>)
    /\ UNCHANGED <<genVars, gwVars, calVars, sessionVars, dbVars>>

\* FitnessAgent.schedule_workout prints the workout; exercise['name'] etc.
\* raise KeyError on an exercise without name, sets or reps
ScheduleWorkoutRaises(plans) == \E i \in 1..Len(plans) : DescriptionRaises(plans[i])

\* InteractiveChat.handle_workout_scheduling
CliHandleWorkoutScheduling(m) ==
    \E now \in Nows :
        /\ Respond(m, IF current_workout_plan = <<>>
                      THEN [kind |-> "no_workout_to_schedule"]
                      ELSE IF ScheduleWorkoutRaises(current_workout_plan)
                      THEN [kind |-> "raised"]
                      ELSE [kind |-> "schedule", today |-> now,
                            lines |-> ScheduleLines(current_workout_plan, now)], <<>>)
        /\ UNCHANGED <<genVars, gwVars, calVars, sessionVars, dbVars>>

\* handle_calendar_export: the text after "name:" of the lowered input, cut at
\* its first space; "Workout Schedule" when there is none
CliCalendarName(m) ==
    IF Contains(Lower(m), <<"name", ":">>)
    THEN LET name_part == Strip(Split(Lower(m), <<"name", ":">>)[2])
         IN  IF Contains(name_part, <<" ">>) THEN Words(name_part)[1] ELSE name_part
    ELSE <<"Workout", " ", "Schedule">>

\* handle_calendar_export: the date after "date:" if strptime takes it, else now
CliStartDate(m, now) ==
    IF Contains(Lower(m), <<"date", ":">>)
    THEN LET date_part == Strip(Split(Lower(m), <<"date", ":">>)[2])
             date_str == IF Contains(date_part, <<" ">>) THEN Words(date_part)[1]
                         ELSE date_part
         IN  IF ParseDate(date_str).ok THEN ParseDate(date_str).val ELSE now
    ELSE now

\* InteractiveChat.handle_calendar_export: needs a current plan; calls
\* create_workout_calendar (not in a try), appends the path to
\* context["calendar_files"] and replies with it
CliHandleCalendarExport(m) ==
    IF current_workout_plan = <<>>
    THEN /\ Respond(m, [kind |-> "no_workout_to_export"], <<>>)
         /\ UNCHANGED <<genVars, gwVars, calVars, sessionVars, dbVars>>
    ELSE \E now \in Nows, writable \in BOOLEAN :
         \E calendar_name \in {CliCalendarName(m)}, start_date \in {CliStartDate(m, now)} :
         \E r \in {create_workout_calendar(current_workout_plan, start_date, calendar_name,
                                           workout_duration_minutes_default, writable)} :
            /\ calendar_log' = Append(calendar_log,
                   CalendarCall(current_workout_plan, start_date, calendar_name, FALSE,
                                workout_duration_minutes_default, r))
            /\ calendar_dir' = Written(calendar_dir, r)
            /\ calendar_files' = IF r.raised THEN calendar_files
                                 ELSE Append(calendar_files, r.path)
            /\ Respond(m, IF r.raised THEN [kind |-> "raised"]
                          ELSE [kind |-> "calendar_created", path |-> r.path], <<>>)
            /\ UNCHANGED <<genVars, gwVars, sessionVars, dbVars>>

\* the handler InteractiveChat.process_message picks: the first test the
\* lowered input passes
CliHandler(m) ==
    LET lower == Lower(m)
    IN  IF StartsWith(lower, <<"create", " ", "workout", " ", "plan">>)
        THEN "handle_workout_creation"
        ELSE IF StartsWith(lower, <<"create", " ", "diet", " ", "plan">>)
        THEN "handle_diet_creation"
        ELSE IF StartsWith(lower, <<"schedule", " ", "workout">>)
        THEN "handle_workout_scheduling"
        ELSE IF StartsWith(lower, <<"export", " ", "calendar">>)
                \/ StartsWith(lower, <<"create", " ", "calendar">>)
        THEN "handle_calendar_export"
        ELSE IF StartsWith(lower, <<"view", " ", "profile">>) THEN "view_profile"
        ELSE IF StartsWith(lower, <<"update", " ", "profile">>)
        THEN "handle_profile_update"
        ELSE IF StartsWith(lower, <<"save", " ", "workout">>) THEN "handle_save_workout"
        ELSE IF StartsWith(lower, <<"save", " ", "diet">>) THEN "handle_save_diet"
        ELSE IF StartsWith(lower, <<"list", " ", "workout", " ", "plan", "s">>)
                \/ lower = <<"list", " ", "workout", "s">>
        THEN "list_workout_plans"
        ELSE IF StartsWith(lower, <<"list", " ", "diet", " ", "plan", "s">>)
                \/ lower = <<"list", " ", "diet", "s">>
        THEN "list_diet_plans"
        ELSE IF StartsWith(lower, <<"help">>) THEN "show_help"
        ELSE IF lower = <<"exit">> \/ lower = <<"quit">> THEN "exit"
        ELSE "general_chat"

\* InteractiveChat.process_message(user_input): the handler runs; an exception
\* that left a handler has ended the process (main() catches nothing)
CliProcessMessage(m) ==
    /\ response.kind # "raised"
    /\ \E handler \in {CliHandler(m)} :
        IF handler = "handle_workout_creation" THEN CliHandleWorkoutCreation(m)
        ELSE IF handler = "handle_diet_creation" THEN CliHandleDietCreation(m)
        ELSE IF handler = "handle_workout_scheduling" THEN CliHandleWorkoutScheduling(m)
        ELSE IF handler = "handle_calendar_export" THEN CliHandleCalendarExport(m)
        ELSE IF handler = "view_profile" THEN CliViewProfile(m)
        ELSE IF handler = "handle_profile_update" THEN CliHandleProfileUpdate(m)
        ELSE IF handler = "handle_save_workout" THEN CliHandleSaveWorkout(m)
        ELSE IF handler = "handle_save_diet" THEN CliHandleSaveDiet(m)
        ELSE IF handler = "list_workout_plans" THEN CliListWorkoutPlans(m)
        ELSE IF handler = "list_diet_plans" THEN CliListDietPlans(m)
        ELSE IF handler = "show_help" THEN CliShowHelp(m)
        ELSE IF handler = "exit" THEN CliExit(m)
        ELSE handler = "general_chat" /\ CliGeneralChat(m)

CliOtherMsgs == {<<"help">>, <<"Quit">>, <<"profile">>}

CliUpdateProfile == \E m \in UpdateMsgs : CliProcessMessage(m)

CliView == \E m \in ViewMsgs : CliProcessMessage(m)

CliOther == \E m \in CliOtherMsgs : CliProcessMessage(m)

CliNext == CliUpdateProfile \/ CliView \/ CliOther

SpecCli == CliInit /\ [][CliNext]_vars

\* ------------------------------------- specification: plans in the CLI chat

CliCreateWorkout == \E m \in CreateWorkoutMsgs : CliProcessMessage(m)

CliCreateDiet == \E m \in CreateDietMsgs : CliProcessMessage(m)

CliSaveWorkout ==
    /\ Len(db_workout_plans) + Len(db_diet_plans) < MaxSaved
    /\ \E m \in SaveWorkoutMsgs : CliProcessMessage(m)

CliSaveDiet ==
    /\ Len(db_workout_plans) + Len(db_diet_plans) < MaxSaved
    /\ \E m \in SaveDietMsgs : CliProcessMessage(m)

CliList == \E m \in ListMsgs : CliProcessMessage(m)

CliPlansNext ==
    \/ CliCreateWorkout
    \/ CliCreateDiet
    \/ CliSaveWorkout
    \/ CliSaveDiet
    \/ CliList

SpecCliPlans == CliInit /\ [][CliPlansNext]_vars

\* ------------------------------------ db_manager.py: DatabaseManager calls

\* a Python object json.dumps has no encoding for (a datetime, a set)
PyObject == [t |-> "object", v |-> <<>>]

\* json.dumps(x) returns (TRUE) or raises TypeError (FALSE)
RECURSIVE Serialisable(_)
Serialisable(x) ==
    IF x.t = "list" THEN \A i \in 1..Len(x.v) : Serialisable(x.v[i])
    ELSE IF x.t = "dict" THEN \A k \in DOMAIN x.v : Serialisable(x.v[k])
    ELSE x.t \in {"str", "int", "float", "null"}

\* what can go wrong underneath one call: nothing, the statement fails (the
\* transaction is then aborted), or the connection is lost (it is then closed)
GwFaults == {"none", "statement_error", "connection_lost"}

\* the first statement of a try block, met by the connection as it is:
\* cursor() raises InterfaceError on a closed connection and execute raises
\* InFailedSqlTransaction in an aborted transaction; else the fault decides
Execute(fault) ==
    IF conn = "closed" THEN "interface_error"
    ELSE IF conn = "aborted" THEN "in_failed_transaction"
    ELSE fault

\* the connection after a statement that raised psycopg2.Error
ConnAfterError(outcome) ==
    IF outcome \in {"interface_error", "connection_lost"} THEN "closed" ELSE "aborted"

\* a call's effect: whether an exception left it, the value it returned, the
\* connection and the tables after it
Effect(raised, val, c, users, profiles, workouts, diets, now) ==
    [raised |-> raised, val |-> val, conn |-> c, users |-> users,
     profiles |-> profiles, workouts |-> workouts, diets |-> diets, now |-> now]

\* a call that changes no table
Kept(raised, val, c) ==
    Effect(raised, val, c, db_users, db_profiles, db_workout_plans, db_diet_plans, db_now)

\* except psycopg2.Error of a read (get_profile, get_*_plans): the sentinel is
\* returned and the connection is left as the failure left it
ReadFailed(outcome, sentinel) == Kept(FALSE, sentinel, ConnAfterError(outcome))

\* except psycopg2.Error of a write (get_or_create_user, save_*): conn.rollback(),
\* which raises InterfaceError on a closed connection, then the sentinel
WriteFailed(outcome, sentinel) ==
    IF ConnAfterError(outcome) = "closed" THEN Kept(TRUE, VNull, "closed")
    ELSE Kept(FALSE, sentinel, "idle")

\* REFERENCES users(id)
UserExists(uid) == \E i \in 1..Len(db_users) : db_users[i].id = uid

NoUser == [id |-> 0 - 1, created |-> FALSE]

\* Mutant: the name is not looked up; every call registers it again.
get_or_create_user_NoLookup(username, fault) ==
    IF conn = "none" THEN Kept(FALSE, NoUser, conn)
    ELSE IF Execute(fault) # "none" THEN WriteFailed(Execute(fault), NoUser)
    ELSE Effect(FALSE, [id |-> Len(db_users) + 1, created |-> TRUE], "idle",
                Append(db_users, [id |-> Len(db_users) + 1, username |-> username]),
                db_profiles, db_workout_plans, db_diet_plans, db_now)

\* DatabaseManager.get_or_create_user(username)
get_or_create_user(username, fault) ==
    IF conn = "none" THEN Kept(FALSE, NoUser, conn)
    ELSE IF Execute(fault) # "none" THEN WriteFailed(Execute(fault), NoUser)
    ELSE IF \E i \in 1..Len(db_users) : db_users[i].username = username
    THEN Kept(FALSE,
              [id |-> db_users[CHOOSE i \in 1..Len(db_users) :
                                   db_users[i].username = username].id,
               created |-> FALSE], "idle")
    ELSE Effect(FALSE, [id |-> Len(db_users) + 1, created |-> TRUE], "idle",
                Append(db_users, [id |-> Len(db_users) + 1, username |-> username]),
                db_profiles, db_workout_plans, db_diet_plans, db_now)

\* the empty mapping, as a parsed JSON value
EmptyMapping == [k \in {} |-> VNull]

\* DatabaseManager.get_profile(user_id): profile_data of the first row found
get_profile(uid, fault) ==
    IF conn = "none" THEN Kept(FALSE, EmptyMapping, conn)
    ELSE IF Execute(fault) # "none" THEN ReadFailed(Execute(fault), EmptyMapping)
    ELSE IF \E i \in 1..Len(db_profiles) : db_profiles[i].user_id = uid
    THEN Kept(FALSE,
              db_profiles[CHOOSE i \in 1..Len(db_profiles) :
                              /\ db_profiles[i].user_id = uid
                              /\ \A j \in 1..(i - 1) : db_profiles[j].user_id # uid
                         ].profile_data, "idle")
    ELSE Kept(FALSE, EmptyMapping, "idle")

\* Mutant: a row is inserted whether or not the user has one.
DbUpsertProfile_InsertOnly(table, uid, data) ==
    Append(table, [user_id |-> uid, profile_data |-> data])

\* UPDATE profiles SET profile_data = ... WHERE user_id = ... if SELECT finds a
\* row of the user, else INSERT INTO profiles (user_id, profile_data)
DbUpsertProfile(table, uid, data) ==
    IF \E i \in 1..Len(table) : table[i].user_id = uid
    THEN [i \in 1..Len(table) |->
            IF table[i].user_id = uid THEN [user_id |-> uid, profile_data |-> data]
            ELSE table[i]]
    ELSE Append(table, [user_id |-> uid, profile_data |-> data])

\* DatabaseManager.save_profile(user_id, profile_data): the SELECT runs first,
\* then json.dumps (TypeError is not caught), then UPDATE or INSERT (which the
\* foreign key rejects for an unknown user), then commit
save_profile(uid, profile_data, fault) ==
    IF conn = "none" THEN Kept(FALSE, FALSE, conn)
    ELSE IF Execute(fault) # "none" THEN WriteFailed(Execute(fault), FALSE)
    ELSE IF \E k \in DOMAIN profile_data : ~Serialisable(profile_data[k])
    THEN Kept(TRUE, VNull, "idle")
    ELSE IF ~UserExists(uid) THEN WriteFailed("statement_error", FALSE)
    ELSE Effect(FALSE, TRUE, "idle", db_users,
                DbUpsertProfile(db_profiles, uid, profile_data),
                db_workout_plans, db_diet_plans, db_now)

\* DatabaseManager.save_workout_plan(user_id, plan_name, plan_data): json.dumps
\* runs when the statement's arguments are built, inside the with block
save_workout_plan(uid, plan_name, plan_data, fault) ==
    IF conn = "none" THEN Kept(FALSE, 0 - 1, conn)
    ELSE IF conn = "closed" THEN WriteFailed("interface_error", 0 - 1)
    ELSE IF ~Serialisable(plan_data) THEN Kept(TRUE, VNull, conn)
    ELSE IF Execute(fault) # "none" THEN WriteFailed(Execute(fault), 0 - 1)
    ELSE IF ~UserExists(uid) THEN WriteFailed("statement_error", 0 - 1)
    ELSE Effect(FALSE, Len(db_workout_plans) + 1, "idle", db_users, db_profiles,
                DbInsertPlan(db_workout_plans, uid, plan_name, plan_data),
                db_diet_plans, db_now + 1)

\* DatabaseManager.get_workout_plans(user_id)
get_workout_plans(uid, fault) ==
    IF conn = "none" THEN Kept(FALSE, <<>>, conn)
    ELSE IF Execute(fault) # "none" THEN ReadFailed(Execute(fault), <<>>)
    ELSE Kept(FALSE, DbGetPlans(db_workout_plans, uid), "idle")

\* DatabaseManager.save_diet_plan(user_id, plan_name, plan_data)
save_diet_plan(uid, plan_name, plan_data, fault) ==
    IF conn = "none" THEN Kept(FALSE, 0 - 1, conn)
    ELSE IF conn = "closed" THEN WriteFailed("interface_error", 0 - 1)
    ELSE IF ~Serialisable(plan_data) THEN Kept(TRUE, VNull, conn)
    ELSE IF Execute(fault) # "none" THEN WriteFailed(Execute(fault), 0 - 1)
    ELSE IF ~UserExists(uid) THEN WriteFailed("statement_error", 0 - 1)
    ELSE Effect(FALSE, Len(db_diet_plans) + 1, "idle", db_users, db_profiles,
                db_workout_plans,
                DbInsertPlan(db_diet_plans, uid, plan_name, plan_data), db_now + 1)

\* DatabaseManager.get_diet_plans(user_id)
get_diet_plans(uid, fault) ==
    IF conn = "none" THEN Kept(FALSE, <<>>, conn)
    ELSE IF Execute(fault) # "none" THEN ReadFailed(Execute(fault), <<>>)
    ELSE Kept(FALSE, DbGetPlans(db_diet_plans, uid), "idle")

\* DatabaseManager.close(): if self.conn: self.conn.close()
close == Kept(FALSE, VNull, IF conn = "none" THEN "none" ELSE "closed")

\* ------------------------------- specification: the Persistence Gateway

Usernames == {<<"alice">>, <<"bob">>}

\* the ids asked for: id 2 is a user's only once both names are registered
GwUserIds == {1, 2}

GwProfiles ==
    {[age |-> VStr(<<"3", "0">>)],
     [age |-> VStr(<<"4", "0">>), goals |-> VStr(<<"lose", " ", "weight">>)],
     [age |-> VStr(<<"3", "0">>), since |-> PyObject]}

GwPlanName == <<"plan">>

GwWorkoutPayloads == {WorkoutPlanData(FallbackWorkoutPlan(1)), VList(<<PyObject>>)}

GwDietPayloads == {DietPlanData(FallbackDietPlan), VList(<<PyObject>>)}

\* a call as it is recorded
Call(op, uid, data, fault) == [op |-> op, user_id |-> uid, data |-> data, fault |-> fault]

\* DatabaseManager.__init__: connect() leaves conn None when it fails;
\* setup_tables creates the empty tables
GwInit ==
    /\ call = NoCall
    /\ result = NoResult
    /\ user_id = 0
    /\ current_workout_plan = <<>>
    /\ current_diet_plan = <<>>
    /\ user_profile = NoProfile
    /\ saved_workout_plans = <<>>
    /\ saved_diet_plans = <<>>
    /\ message = <<>>
    /\ response = NoReply
    /\ gateway_calls = <<>>
    /\ chat_history = NotKept
    /\ db_profiles = <<>>
    /\ db_workout_plans = <<>>
    /\ db_diet_plans = <<>>
    /\ db_now = 1
    /\ db_users = <<>>
    /\ conn \in {"none", "idle"}
    /\ gw_call = NoGwCall
    /\ gw_result = NoGwResult
    /\ logins = NoLogins
    /\ calendar_log = <<>>
    /\ calendar_dir = NoFiles
    /\ calendar_files = <<>>

\* the state after a call with effect r
GwDone(c, r) ==
    /\ gw_call' = c
    /\ gw_result' = [raised |-> r.raised, val |-> r.val]
    /\ conn' = r.conn
    /\ db_users' = r.users
    /\ db_profiles' = r.profiles
    /\ db_workout_plans' = r.workouts
    /\ db_diet_plans' = r.diets
    /\ db_now' = r.now
    /\ UNCHANGED <<genVars, sessionVars, chatVars, calVars, logins>>

GwGetOrCreateUser ==
    \E username \in Usernames, fault \in GwFaults :
        \E r \in {get_or_create_user(username, fault)} :
            GwDone(Call("get_or_create_user", 0, username, fault), r)

GwGetProfile ==
    \E uid \in GwUserIds, fault \in GwFaults :
        \E r \in {get_profile(uid, fault)} :
            GwDone(Call("get_profile", uid, <<>>, fault), r)

GwSaveProfile ==
    \E uid \in GwUserIds, profile_data \in GwProfiles, fault \in GwFaults :
        \E r \in {save_profile(uid, profile_data, fault)} :
            GwDone(Call("save_profile", uid, profile_data, fault), r)

GwSaveWorkoutPlan ==
    /\ Len(db_workout_plans) + Len(db_diet_plans) < MaxGwPlans
    /\ \E uid \in GwUserIds, plan_data \in GwWorkoutPayloads, fault \in GwFaults :
        \E r \in {save_workout_plan(uid, GwPlanName, plan_data, fault)} :
            GwDone(Call("save_workout_plan", uid, plan_data, fault), r)

GwGetWorkoutPlans ==
    \E uid \in GwUserIds, fault \in GwFaults :
        \E r \in {get_workout_plans(uid, fault)} :
            GwDone(Call("get_workout_plans", uid, <<>>, fault), r)

GwSaveDietPlan ==
    /\ Len(db_workout_plans) + Len(db_diet_plans) < MaxGwPlans
    /\ \E uid \in GwUserIds, plan_data \in GwDietPayloads, fault \in GwFaults :
        \E r \in {save_diet_plan(uid, GwPlanName, plan_data, fault)} :
            GwDone(Call("save_diet_plan", uid, plan_data, fault), r)

GwGetDietPlans ==
    \E uid \in GwUserIds, fault \in GwFaults :
        \E r \in {get_diet_plans(uid, fault)} :
            GwDone(Call("get_diet_plans", uid, <<>>, fault), r)

GwClose == GwDone(Call("close", 0, <<>>, "none"), close)

GwNext ==
    \/ GwGetOrCreateUser
    \/ GwGetProfile
    \/ GwSaveProfile
    \/ GwSaveWorkoutPlan
    \/ GwGetWorkoutPlans
    \/ GwSaveDietPlan
    \/ GwGetDietPlans
    \/ GwClose

SpecGateway == GwInit /\ [][GwNext]_vars

\* ------------------------------- specification: the Calendar Exporter

\* workout days with a rest period, without one, and with an exercise that
\* has no name
CalWorkouts ==
    {FallbackWorkoutPlan(1)[1],
     [day |-> <<"Tue">>,
      exercises |-> <<[name |-> <<"Squats">>, sets |-> <<"3">>, reps |-> <<"1", "0">>]>>,
      duration |-> <<"3", "0", " ", "min">>, intensity |-> <<"high">>],
     [day |-> <<"Wed">>,
      exercises |-> <<[exercise |-> <<"Squats">>]>>,
      duration |-> <<"3", "0", " ", "min">>, intensity |-> <<"low">>]}

CalPlanLists == SeqsUpTo(CalWorkouts, MaxCalDays)

\* start dates: the example's, the ends of February in and out of a leap
\* year, and the end of a year, at midnight or in the morning
StartDates ==
    {DateTime(2024, 1, 1, 0), DateTime(2024, 2, 28, 570), DateTime(2023, 2, 27, 0),
     DateTime(2023, 12, 30, 570)}

DefaultCalendarName == <<"Workout", " ", "Schedule">>

CalendarNames == {DefaultCalendarName, <<"gym">>}

Durations == {30, 90}

CalInit == Init

\* one call of the exporter per behaviour, with workout_duration_minutes given
CalCreateWithDuration ==
    /\ calendar_log = <<>>
    /\ \E plans \in CalPlanLists, start_date \in StartDates,
          calendar_name \in CalendarNames, minutes \in Durations, writable \in BOOLEAN :
        \E r \in {create_workout_calendar(plans, start_date, calendar_name,
                                          minutes, writable)} :
            /\ calendar_log' = <<CalendarCall(plans, start_date, calendar_name,
                                              TRUE, minutes, r)>>
            /\ calendar_dir' = Written(calendar_dir, r)
            /\ UNCHANGED <<genVars, sessionVars, chatVars, dbVars, gwVars, calendar_files>>

\* ... and with workout_duration_minutes left to its default
CalCreateDefaultDuration ==
    /\ calendar_log = <<>>
    /\ \E plans \in CalPlanLists, start_date \in StartDates,
          calendar_name \in CalendarNames, writable \in BOOLEAN :
        \E r \in {create_workout_calendar(plans, start_date, calendar_name,
                                          workout_duration_minutes_default, writable)} :
            /\ calendar_log' = <<CalendarCall(plans, start_date, calendar_name, FALSE,
                                              workout_duration_minutes_default, r)>>
            /\ calendar_dir' = Written(calendar_dir, r)
            /\ UNCHANGED <<genVars, sessionVars, chatVars, dbVars, gwVars, calendar_files>>

CalNext == CalCreateWithDuration \/ CalCreateDefaultDuration

SpecCalendar == CalInit /\ [][CalNext]_vars

\* ------------------------- specifications: calendar commands of the chats

\* a three-day plan when the backend fails, a one-day plan when it answers
CalendarCreateMsgs ==
    {<<"create", " ", "workout", " ", "plan", " ", "days", ":", " ", "3">>}

\* "export calendar" bare, with a name and a date, and with a date of no day
ExportMsgs ==
    {<<"export", " ", "calendar">>,
     <<"Create", " ", "Calendar", " ", "name", ":", " ", "Gym", " ", "plan", " ",
       "date", ":", " ", "2", "0", "2", "4", "-", "0", "1", "-", "0", "1">>,
     <<"export", " ", "calendar", " ", "date", ":", " ",
       "2", "0", "2", "3", "-", "0", "2", "-", "2", "9">>}

ScheduleMsgs ==
    {<<"schedule", " ", "workout">>, <<"Schedule", " ", "Workout", " ", "please">>}

ChatCalendarCreate == \E m \in CalendarCreateMsgs : ProcessChatMessage(m)

ChatExport == \E m \in ExportMsgs : ProcessChatMessage(m)

ChatSchedule == \E m \in ScheduleMsgs : ProcessChatMessage(m)

\* the form of the Calendar tab: a name and a date (st.date_input gives no time)
TabExport ==
    /\ Len(calendar_log) < MaxExports
    /\ \E calendar_name \in CalendarNames, now \in Nows :
          ExportToCalendar(calendar_name, [now EXCEPT !.hm = 0])

\* number_input("Number of Days", min_value=1, max_value=7): two of the values
FormDays == {2, 3}

TabGenerate == \E days \in FormDays : create_workout_plan(days, DefaultLevel)

WebCalendarNext ==
    ChatCalendarCreate \/ ChatExport \/ ChatSchedule \/ TabExport \/ TabGenerate

SpecWebCalendar == Init /\ [][WebCalendarNext]_vars

CliCalendarCreate == \E m \in CalendarCreateMsgs : CliProcessMessage(m)

CliExport ==
    /\ Len(calendar_log) < MaxExports
    /\ \E m \in ExportMsgs : CliProcessMessage(m)

CliSchedule == \E m \in ScheduleMsgs : CliProcessMessage(m)

CliCalendarNext == CliCalendarCreate \/ CliExport \/ CliSchedule

SpecCliCalendar == CliInit /\ [][CliCalendarNext]_vars

\* ------------------------- specification: the parameters of create commands

\* "create workout" with its days: token missing, empty, without its colon, no
\* integer, or an integer; and its level: token missing, empty, unknown,
\* capitalised, or one of the three levels
ParamWorkoutMsgs ==
    {<<"create", " ", "workout">>,
     <<"create", " ", "workout", " ", "days", ":">>,
     <<"create", " ", "workout", " ", "days", " ", "3">>,
     <<"create", " ", "workout", " ", "days", ":", " ", "abc">>,
     <<"create", " ", "workout", " ", "plan", " ", "days", ":", " ", "3", ".", "5">>,
     <<"create", " ", "workout", " ", "plan", " ", "days", ":", " ", "3">>,
     <<"create", " ", "workout", " ", "plan", " ", "days", ":", " ", "2", " ",
       "level", ":", " ", "expert">>,
     <<"create", " ", "workout", " ", "plan", " ", "level", ":">>,
     <<"Create", " ", "Workout", " ", "Plan", " ", "level", ":", " ", "Beginner">>,
     <<"create", " ", "workout", " ", "plan", " ", "days", ":", " ", "abc", " ",
       "level", ":", " ", "advanced">>}

\* "create diet" with its calories: token missing, empty, without its colon,
\* no integer, or an integer
ParamDietMsgs ==
    {<<"create", " ", "diet">>,
     <<"create", " ", "diet", " ", "calories", ":">>,
     <<"create", " ", "diet", " ", "calories", " ", "1", "8", "0", "0">>,
     <<"create", " ", "diet", " ", "plan", " ", "calories", ":", " ", "lots">>,
     <<"create", " ", "diet", " ", "plan", " ", "calories", ":", " ", "1", "8", "0", "0">>}

ChatParamWorkout == \E m \in ParamWorkoutMsgs : ProcessChatMessage(m)

ChatParamDiet == \E m \in ParamDietMsgs : ProcessChatMessage(m)

CreateNext == ChatParamWorkout \/ ChatParamDiet

SpecCreate == Init /\ [][CreateNext]_vars

CliParamWorkout == \E m \in ParamWorkoutMsgs : CliProcessMessage(m)

CliParamDiet == \E m \in ParamDietMsgs : CliProcessMessage(m)

CliCreateNext == CliParamWorkout \/ CliParamDiet

SpecCliCreate == CliInit /\ [][CliCreateNext]_vars

\* ---------------------- specification: failures under the web chat commands

\* the backend's answers to a create workout: llm.invoke raises, text that is
\* no JSON, a plan of one day, and a plan whose exercise has no name, sets or
\* reps (WorkoutPlan accepts it, format_workout_plan raises KeyError on it)
ErrorWorkoutReplies ==
    {BackendError, Garbage,
     VList(<<Obj({<<"day", VStr(<<"Mon">>)>>, <<"exercises", VList(<<ExInt>>)>>,
                  <<"duration", VStr(<<"3", "0", " ", "min">>)>>,
                  <<"intensity", VStr(<<"high">>)>>})>>),
     VList(<<Obj({<<"day", VStr(<<"Tue">>)>>,
                  <<"exercises", VList(<<VDict([exercise |-> VStr(<<"Squats">>)])>>)>>,
                  <<"duration", VStr(<<"3", "0", " ", "min">>)>>,
                  <<"intensity", VStr(<<"high">>)>>})>>)}

\* the backend's answers to a chat question: llm.invoke raises, blank text,
\* plain text, and texts "{...}" that parse to an object
LlmAnswers ==
    {BackendError, [t |-> "text", v |-> <<" ">>], LlmText,
     VDict([message |-> VStr(<<"Stretch">>)]),
     VDict([message |-> VInt(5)]),
     VDict([text |-> VNull]),
     VDict([note |-> VStr(<<"Stretch">>)])}

ErrorMsgs ==
    {<<"create", " ", "workout", " ", "plan", " ", "days", ":", " ", "2">>,
     <<"load", " ", "workout", " ", "plan", ":", " ", "1">>,
     <<"load", " ", "workout", " ", "plan", ":", " ", "5">>,
     <<"load", " ", "workout", " ", "plan", ":", " ", "abc">>,
     <<"update", " ", "profile", " ", "age", ":", " ", "3", "0">>,
     <<"how", " ", "to", " ", "stretch">>}

ErrChat == \E m \in ErrorMsgs : ProcessChatMessageFrom(m, ErrorWorkoutReplies, LlmAnswers)

ErrSave ==
    /\ Len(db_workout_plans) < MaxSaved
    /\ \E m \in SaveWorkoutMsgs :
          ProcessChatMessageFrom(m, ErrorWorkoutReplies, LlmAnswers)

ErrorsNext == ErrChat \/ ErrSave

SpecErrors == Init /\ [][ErrorsNext]_vars

\* ------------------------------- specification: the dispatch of a message

\* Mutant: the list rules test the first word only.
WebRules_ListAnything(message_lower) ==
    [create_workout |-> StartsWith(message_lower, <<"create", " ", "workout">>),
     create_diet |-> StartsWith(message_lower, <<"create", " ", "diet">>),
     save_workout |-> StartsWith(message_lower, <<"save", " ", "workout">>),
     save_diet |-> StartsWith(message_lower, <<"save", " ", "diet">>),
     list_workout |-> StartsWith(message_lower, <<"list">>),
     list_diet |-> StartsWith(message_lower, <<"list">>),
     load_workout |-> StartsWith(message_lower, <<"load", " ", "workout">>),
     load_diet |-> StartsWith(message_lower, <<"load", " ", "diet">>),
     view_profile |-> StartsWith(message_lower, <<"view", " ", "profile">>)
                      \/ message_lower = <<"profile">>,
     update_profile |-> StartsWith(message_lower, <<"update", " ", "profile">>),
     export_calendar |-> StartsWith(message_lower, <<"export", " ", "calendar">>)
                         \/ StartsWith(message_lower, <<"create", " ", "calendar">>),
     schedule_workout |-> StartsWith(message_lower, <<"schedule", " ", "workout">>),
     help |-> message_lower = <<"help">>]

\* process_chat_message: the test of each rule of the if / elif chain on the
\* lowered message
WebRules(message_lower) ==
    [create_workout |-> StartsWith(message_lower, <<"create", " ", "workout">>)
                        \/ StartsWith(message_lower, <<"create", " ", "workout", " ", "plan">>),
     create_diet |-> StartsWith(message_lower, <<"create", " ", "diet">>)
                     \/ StartsWith(message_lower, <<"create", " ", "diet", " ", "plan">>),
     save_workout |-> StartsWith(message_lower, <<"save", " ", "workout">>),
     save_diet |-> StartsWith(message_lower, <<"save", " ", "diet">>),
     list_workout |-> StartsWith(message_lower, <<"list", " ", "workout">>)
                      \/ message_lower = <<"list", " ", "workout", "s">>,
     list_diet |-> StartsWith(message_lower, <<"list", " ", "diet">>)
                   \/ message_lower = <<"list", " ", "diet", "s">>,
     load_workout |-> StartsWith(message_lower, <<"load", " ", "workout">>),
     load_diet |-> StartsWith(message_lower, <<"load", " ", "diet">>),
     view_profile |-> StartsWith(message_lower, <<"view", " ", "profile">>)
                      \/ message_lower = <<"profile">>,
     update_profile |-> StartsWith(message_lower, <<"update", " ", "profile">>),
     export_calendar |-> StartsWith(message_lower, <<"export", " ", "calendar">>)
                         \/ StartsWith(message_lower, <<"create", " ", "calendar">>),
     schedule_workout |-> StartsWith(message_lower, <<"schedule", " ", "workout">>),
     help |-> message_lower = <<"help">>]

\* InteractiveChat.process_message: the test of each rule of its chain, under
\* the name of the handler the rule calls
CliRules(lower) ==
    [handle_workout_creation |-> StartsWith(lower, <<"create", " ", "workout", " ", "plan">>),
     handle_diet_creation |-> StartsWith(lower, <<"create", " ", "diet", " ", "plan">>),
     handle_workout_scheduling |-> StartsWith(lower, <<"schedule", " ", "workout">>),
     handle_calendar_export |-> StartsWith(lower, <<"export", " ", "calendar">>)
                                \/ StartsWith(lower, <<"create", " ", "calendar">>),
     view_profile |-> StartsWith(lower, <<"view", " ", "profile">>),
     handle_profile_update |-> StartsWith(lower, <<"update", " ", "profile">>),
     handle_save_workout |-> StartsWith(lower, <<"save", " ", "workout">>),
     handle_save_diet |-> StartsWith(lower, <<"save", " ", "diet">>),
     list_workout_plans |-> StartsWith(lower, <<"list", " ", "workout", " ", "plan", "s">>)
                            \/ lower = <<"list", " ", "workout", "s">>,
     list_diet_plans |-> StartsWith(lower, <<"list", " ", "diet", " ", "plan", "s">>)
                         \/ lower = <<"list", " ", "diet", "s">>,
     show_help |-> StartsWith(lower, <<"help">>),
     exit |-> lower = <<"exit">> \/ lower = <<"quit">>]

\* the messages dispatched: a first word, alone or followed by a second word,
\* alone or followed by "plans". A plural is the singular token and the token
\* "s", so that startswith finds the singular at the head of the plural.
FirstWords ==
    {"create", "save", "list", "load", "view", "update", "export", "schedule", "help",
     "Help", "profile", "exit"}

SecondWords ==
    {<<"workout">>, <<"diet">>, <<"profile">>, <<"calendar">>, <<"workout", "s">>,
     <<"diet", "s">>, <<"plan">>}

DispatchMsgs ==
    {<<a>> : a \in FirstWords}
    \cup {<<a, " ">> \o b : a \in FirstWords, b \in SecondWords}
    \cup {<<a, " ">> \o b \o <<" ", "plan", "s">> : a \in FirstWords, b \in SecondWords}

\* a message is dispatched while no plan has been saved yet
DispatchChat ==
    /\ db_workout_plans = <<>>
    /\ db_diet_plans = <<>>
    /\ \E m \in DispatchMsgs : ProcessChatMessage(m)

DispatchNext == DispatchChat

SpecDispatch == Init /\ [][DispatchNext]_vars

\* ------------------------------- specification: naming the plans to save

\* save messages with and without a name; the names carry capitals, spaces
\* around them and a second "name:"
NamedSaveWorkoutMsgs ==
    {<<"save", " ", "workout">>,
     <<"save", " ", "workout", " ", "name", ":", " ", "Legs", " ", "Gym", " ">>,
     <<"Save", " ", "workout", " ", "Name", ":", "legs">>,
     <<"save", " ", "workout", " ", "name", ":", " ", "gym", " ", "name", ":", " ", "a">>}

NamedSaveDietMsgs ==
    {<<"save", " ", "diet">>,
     <<"save", " ", "diet", " ", "name", ":", " ", "Gym", " ", "Diet">>,
     <<"save", " ", "diet", " ", "name", ":", " ", "cut">>}

\* named saves made in one run
MaxNamed == 1

NameCreate ==
    \E m \in CreateWorkoutMsgs \cup CreateDietMsgs : ProcessChatMessage(m)

NameSaveWorkout ==
    /\ Len(db_workout_plans) + Len(db_diet_plans) < MaxNamed
    /\ \E m \in NamedSaveWorkoutMsgs : ProcessChatMessage(m)

NameSaveDiet ==
    /\ Len(db_workout_plans) + Len(db_diet_plans) < MaxNamed
    /\ \E m \in NamedSaveDietMsgs : ProcessChatMessage(m)

NamesNext ==
    \/ NameCreate
    \/ NameSaveWorkout
    \/ NameSaveDiet

SpecNames == Init /\ [][NamesNext]_vars

\* --------------------------------- specification: login and logout (web)

\* exchanges kept per login
MaxHistory == 2

\* the session of a new browser tab on the login page (user_id None is 0), on
\* a store without users
LoginInit ==
    /\ call = NoCall
    /\ result = NoResult
    /\ user_id = 0
    /\ current_workout_plan = <<>>
    /\ current_diet_plan = <<>>
    /\ user_profile = NoProfile
    /\ saved_workout_plans = <<>>
    /\ saved_diet_plans = <<>>
    /\ message = <<>>
    /\ response = NoReply
    /\ gateway_calls = <<>>
    /\ chat_history = <<>>
    /\ db_profiles = <<>>
    /\ db_workout_plans = <<>>
    /\ db_diet_plans = <<>>
    /\ db_now = 1
    /\ db_users = <<>>
    /\ conn = "idle"
    /\ gw_call = NoGwCall
    /\ gw_result = NoGwResult
    /\ logins = NoLogins
    /\ calendar_log = <<>>
    /\ calendar_dir = NoFiles
    /\ calendar_files = <<>>

\* the profile get_profile parses from the row of the user, {} without a row
LoadedProfile(table, uid) ==
    IF \E i \in 1..Len(table) : table[i].user_id = uid
    THEN LET data == table[CHOOSE i \in 1..Len(table) : table[i].user_id = uid].profile_data
         IN  [k \in DOMAIN data |-> data[k].v]
    ELSE NoProfile

\* login_page, submit: load_user_data(username). get_or_create_user gives the
\* id (<= 0: the login fails); the profile and the saved lists replace the
\* session's only when the read gave a non-empty value
load_user_data(username) ==
    /\ user_id = 0
    /\ \E fault \in GwFaults, profileOk \in BOOLEAN, workoutOk \in BOOLEAN,
          dietOk \in BOOLEAN :
       \E r \in {get_or_create_user(username, fault)} :
          IF r.raised \/ r.val.id <= 0
          THEN /\ conn' = r.conn
               /\ Respond(<<>>, [kind |-> IF r.raised THEN "login_raised"
                                          ELSE "login_failed"],
                          <<"get_or_create_user">>)
               /\ UNCHANGED <<genVars, calVars, dbVars, sessionVars, db_users, gw_call,
                              gw_result, logins>>
          ELSE \E profile \in {IF profileOk THEN LoadedProfile(db_profiles, r.val.id)
                               ELSE NoProfile},
                  workout_plans \in {IF workoutOk
                                     THEN DbGetPlans(db_workout_plans, r.val.id)
                                     ELSE <<>>},
                  diet_plans \in {IF dietOk THEN DbGetPlans(db_diet_plans, r.val.id)
                                  ELSE <<>>} :
               /\ user_id' = r.val.id
               /\ db_users' = r.users
               /\ conn' = r.conn
               /\ user_profile' = IF profile # NoProfile THEN profile ELSE user_profile
               /\ saved_workout_plans' = IF workout_plans # <<>> THEN workout_plans
                                         ELSE saved_workout_plans
               /\ saved_diet_plans' = IF diet_plans # <<>> THEN diet_plans
                                      ELSE saved_diet_plans
               /\ Respond(<<>>, [kind |-> "logged_in", username |-> username],
                          <<"get_or_create_user", "get_profile", "get_workout_plans",
                            "get_diet_plans">>)
               /\ UNCHANGED <<genVars, calVars, dbVars, gw_call, gw_result, logins,
                              current_workout_plan, current_diet_plan>>

\* Mutant: the button leaves the session as it is and only shows the login page.
Logout_KeepsSession ==
    /\ user_id > 0
    /\ user_id' = 0
    /\ message' = <<>>
    /\ response' = [kind |-> "logged_out"]
    /\ gateway_calls' = <<>>
    /\ conn' = "idle"
    /\ UNCHANGED <<genVars, calVars, dbVars, db_users, gw_call, gw_result, logins, chat_history,
                   current_workout_plan, current_diet_plan, user_profile,
                   saved_workout_plans, saved_diet_plans>>

\* main_page, the Logout button: db_manager.close(), every key of the session
\* state deleted, init_session_state() (a new DatabaseManager, empty values),
\* page = "login"
Logout ==
    /\ user_id > 0
    /\ user_id' = 0
    /\ current_workout_plan' = <<>>
    /\ current_diet_plan' = <<>>
    /\ user_profile' = NoProfile
    /\ saved_workout_plans' = <<>>
    /\ saved_diet_plans' = <<>>
    /\ chat_history' = <<>>
    /\ message' = <<>>
    /\ response' = [kind |-> "logged_out"]
    /\ gateway_calls' = <<>>
    /\ conn' = "idle"
    /\ UNCHANGED <<genVars, calVars, dbVars, db_users, gw_call, gw_result, logins>>

\* what a logged-in user types in the chat
SessionMsgs ==
    CreateWorkoutMsgs \cup SaveWorkoutMsgs \cup CreateDietMsgs
    \cup {UpdateMsg(LowerPrefix, AgeOnly, <<>>)}

LoginSubmit == \E username \in Usernames : load_user_data(username)

SessionChat ==
    /\ user_id > 0
    /\ Len(chat_history) < MaxHistory
    /\ Len(db_workout_plans) + Len(db_diet_plans) < MaxSaved
    /\ \E m \in SessionMsgs : ProcessChatMessageFrom(m, {Garbage}, {LlmText})

LoginNext ==
    \/ LoginSubmit
    \/ SessionChat
    \/ Logout

SpecLogin == LoginInit /\ [][LoginNext]_vars

\* ------------------------- specification: concurrent get_or_create_user

\* calls of get_or_create_user per session
MaxLogins == 2

\* another session holds an uncommitted users row with this username: an
\* INSERT of the same username waits for that transaction (UNIQUE, line 70)
Blocked(s, username) ==
    \E t \in Sessions \ {s} :
        logins.of[t].pc = "commit" /\ logins.of[t].username = username

\* a committed users row has this username
Registered(username) == \E i \in 1..Len(db_users) : db_users[i].username = username

\* the session's call after this step
LoginStep(s, l, seq) ==
    /\ logins' = [seq |-> seq, of |-> [logins.of EXCEPT ![s] = l]]
    /\ gw_call' = [op |-> "get_or_create_user", session |-> s, username |-> l.username]
    /\ gw_result' = [raised |-> FALSE, val |-> [id |-> l.id, created |-> l.created]]

\* get_or_create_user, "SELECT id FROM users WHERE username = %s": the row
\* found gives (id, False); the SELECT sees committed rows only
SelectUser(s, username) ==
    /\ logins.of[s].pc \in {"idle", "done"}
    /\ logins.of[s].calls < MaxLogins
    /\ LoginStep(s, IF Registered(username)
                    THEN [pc |-> "done", username |-> username,
                          id |-> db_users[CHOOSE i \in 1..Len(db_users) :
                                              db_users[i].username = username].id,
                          created |-> FALSE, calls |-> logins.of[s].calls + 1]
                    ELSE [pc |-> "insert", username |-> username, id |-> 0,
                          created |-> FALSE, calls |-> logins.of[s].calls + 1],
                 logins.seq)
    /\ UNCHANGED <<genVars, sessionVars, chatVars, dbVars, calVars, db_users, conn>>

\* get_or_create_user, "INSERT INTO users (username) VALUES (%s) RETURNING id":
\* it waits while another transaction holds the username; a committed row
\* with the username is a unique violation, a psycopg2.Error: rollback and
\* (-1, False); else the row is inserted with the next id of the sequence
InsertUser(s) ==
    /\ logins.of[s].pc = "insert"
    /\ ~Blocked(s, logins.of[s].username)
    /\ LoginStep(s, IF Registered(logins.of[s].username)
                    THEN [logins.of[s] EXCEPT !.pc = "done", !.id = 0 - 1]
                    ELSE [logins.of[s] EXCEPT !.pc = "commit", !.id = logins.seq + 1],
                 logins.seq + 1)
    /\ UNCHANGED <<genVars, sessionVars, chatVars, dbVars, calVars, db_users, conn>>

\* get_or_create_user, conn.commit() and return (user_id, True)
CommitUser(s) ==
    /\ logins.of[s].pc = "commit"
    /\ db_users' = Append(db_users, [id |-> logins.of[s].id,
                                     username |-> logins.of[s].username])
    /\ LoginStep(s, [logins.of[s] EXCEPT !.pc = "done", !.created = TRUE], logins.seq)
    /\ UNCHANGED <<genVars, sessionVars, chatVars, dbVars, calVars, conn>>

RaceSelect == \E s \in Sessions, username \in Usernames : SelectUser(s, username)

RaceInsert == \E s \in Sessions : InsertUser(s)

RaceCommit == \E s \in Sessions : CommitUser(s)

RaceNext ==
    \/ RaceSelect
    \/ RaceInsert
    \/ RaceCommit

\* two sessions on a healthy store without users
RaceInit == GwInit /\ conn = "idle"

SpecRace == RaceInit /\ [][RaceNext]_vars

\* ------------------------------------------------ claims on the generator

\* the backend answered (llm.invoke returned a text)
Answered == call.reply.t # "error"

\* the elements of the array the backend returned, and which of them the loop
\* of the called operation keeps
ArrayElems == IF call.reply.t = "list" THEN call.reply.v ELSE <<>>
ElemOf(e) == IF call.op = "workout" THEN WorkoutOf(e) ELSE DietOf(e)
ValidIdx == {i \in 1..Len(ArrayElems) : ElemOf(ArrayElems[i]).ok}
FallbackOfCall ==
    IF call.op = "workout" THEN FallbackWorkoutPlan(call.arg) ELSE FallbackDietPlan

\* C1: for every day_count in 1..7 and every backend reply that is not
\* parseable JSON, create_workout_plan returns exactly day_count records, the
\* fallback days "Day 1" .. "Day day_count".
C1_FallbackDayCount ==
    (call.op = "workout" /\ call.reply = Garbage
        /\ call.arg \in MinValidDays..MaxValidDays)
    => /\ ~result.raised
       /\ Len(result.plans) = call.arg
       /\ \A i \in 1..call.arg :
            /\ result.plans[i].day = <<"Day", " ", Digits[i + 1]>>
            /\ Len(result.plans[i].exercises) = 3

C1_Witness ==
    /\ call.op = "workout" /\ call.reply = Garbage /\ call.arg = MaxValidDays
    /\ Len(result.plans) = MaxValidDays

\* the reply cannot be used: no JSON, a JSON value that is not an array, or an
\* array with no valid meal
UnusableDietReply ==
    /\ Answered
    /\ \/ call.reply.t # "list"
       \/ \A i \in 1..Len(call.reply.v) : ~DietOf(call.reply.v[i]).ok

\* C2: when the backend reply cannot be used, create_diet_plan returns exactly
\* the 4 fixed fallback meals, with calories 500, 700, 600 and 300.
C2_FallbackDiet ==
    (call.op = "diet" /\ UnusableDietReply)
    => /\ ~result.raised
       /\ Len(result.plans) = 4
       /\ [i \in 1..4 |-> result.plans[i].calories] = <<500, 700, 600, 300>>
       /\ [i \in 1..4 |-> result.plans[i].meal_type] =
             << <<"Breakfast">>, <<"Lunch">>, <<"Dinner">>, <<"Snack">> >>

C2_Witness ==
    /\ call.op = "diet" /\ call.reply.t = "list" /\ Len(call.reply.v) = 2
    /\ UnusableDietReply
    /\ Len(result.plans) = 4

\* C3 (as claimed): for every integer day_count, 0 and negative values
\* included, and every answer of the backend, create_workout_plan returns a
\* non-empty list of WorkoutPlan records and create_diet_plan a non-empty list
\* of DietPlan records.
C3_AlwaysUsablePlan ==
    (call.op # "none" /\ Answered) => (~result.raised /\ result.plans # <<>>)

\* C4 (as claimed): whenever at least one element of the backend's array fails,
\* the list returned is the deterministic fallback plan.
C4_NeverPartial ==
    (call.op # "none" /\ call.reply.t = "list"
        /\ ValidIdx # 1..Len(ArrayElems))
    => result.plans = FallbackOfCall

\* C4 (amended): when at least one element of the array fails, the fallback
\* plan replaces the list only if no element is valid; if some element is valid
\* the caller gets a partial list: as many records as there are valid elements,
\* fewer than the array has, built by the generator from the backend's elements.
C4_PartialWhenSomeValid ==
    (call.op # "none" /\ call.reply.t = "list")
    => \A valid \in {ValidIdx} :
          valid # 1..Len(ArrayElems)
          => /\ ~result.raised
             /\ valid = {} => (result.via = "fallback" /\ result.plans = FallbackOfCall)
             /\ valid # {} =>
                  /\ result.via = "backend"
                  /\ Len(result.plans) = Cardinality(valid)
                  /\ Len(result.plans) < Len(ArrayElems)
                  /\ \A k \in 1..Len(result.plans) :
                        \E i \in valid : result.plans[k] = ElemOf(ArrayElems[i]).plan

C4_Witness ==
    /\ call.op = "workout" /\ call.reply.t = "list"
    /\ Len(ArrayElems) = 2 /\ Cardinality(ValidIdx) = 1
    /\ Len(result.plans) = 1 /\ result.via = "backend"

\* the position in the result of the valid element at index i
Rank(valid, i) == Cardinality({j \in valid : j <= i})

\* C5: when the backend returns a JSON array, each invalid element is dropped
\* individually: the result is exactly the valid elements in their original
\* order, and the fallback plan is returned if and only if no element is valid.
C5_DropIndividually ==
    (call.op # "none" /\ call.reply.t = "list")
    => \A valid \in {ValidIdx} :
          /\ ~result.raised
          /\ (result.via = "fallback") <=> (valid = {})
          /\ result.via = "fallback" => result.plans = FallbackOfCall
          /\ result.via # "fallback" =>
               /\ Len(result.plans) = Cardinality(valid)
               /\ \A i \in valid :
                     result.plans[Rank(valid, i)] = ElemOf(ArrayElems[i]).plan

C5_Witness ==
    /\ call.op = "diet" /\ call.reply.t = "list" /\ Len(ArrayElems) = 2
    /\ ValidIdx = {2}
    /\ result.via = "backend" /\ Len(result.plans) = 1

\* ------------------------------------------- claims on loading saved plans

\* C6: with L saved workout plans and 1 <= N <= L, after "load workout plan: N"
\* the current workout plan is the payload of saved plan N - 1 (0-based), the
\* entry the list shows as number N: dumped again it is that row's plan_data.
\* The same for "load diet plan: N" and the current diet plan.
C6_LoadSetsCurrent ==
    /\ \A n \in 1..Len(saved_workout_plans) :
          message = LoadWorkoutMsg(n) =>
              WorkoutPlanData(current_workout_plan) = saved_workout_plans[n].plan_data
    /\ \A n \in 1..Len(saved_diet_plans) :
          message = LoadDietMsg(n) =>
              DietPlanData(current_diet_plan) = saved_diet_plans[n].plan_data

\* "load workout plan: 2" answered with the second of two different saved plans
C6_Witness ==
    /\ Len(saved_workout_plans) >= 2
    /\ saved_workout_plans[1].plan_data # saved_workout_plans[2].plan_data
    /\ message = LoadWorkoutMsg(2)
    /\ response.kind = "loaded_workout"
    /\ WorkoutPlanData(current_workout_plan) = saved_workout_plans[2].plan_data

\* C7: with a non-empty saved-workout list of length L, "load workout plan: N"
\* for N outside 1..L (N > L, N = 0, N negative) or with an unparsable index
\* replies with an error message and leaves the current workout plan as it was.
C7_BadIndexRejected ==
    [][\A m \in UnparsableLoadMsgs
                \cup {LoadWorkoutMsg(n) :
                         n \in {k \in LoadNumbers : k < 1 \/ k > Len(saved_workout_plans)}} :
          (message' = m /\ saved_workout_plans # <<>>)
              => /\ response'.kind \in {"load_not_understood", "load_failed"}
                 /\ current_workout_plan' = current_workout_plan]_vars

\* --------------------------------------- claims on updating the profile

\* the keys of a list of written pairs, and the value written for a key
Keys(pairs) == {pairs[i][1] : i \in 1..Len(pairs)}
ValueOf(pairs, k) == pairs[CHOOSE i \in 1..Len(pairs) : pairs[i][1] = k][2]

\* C8: after "update profile k1: v1, ..., kn: vn" the session profile maps each
\* ki to vi (trimmed), every other key keeps its value, and no other key is
\* added or removed.
C8_MergesWrittenPairs ==
    [][\A ps \in PairLists, pad \in {<<>>, <<" ">>} :
          message' = UpdateMsg(LowerPrefix, ps, pad) =>
              user_profile' = [k \in (DOMAIN user_profile) \cup Keys(ps) |->
                                  IF k \in Keys(ps) THEN ValueOf(ps, k)
                                  ELSE user_profile[k]]]_vars

\* C9: an "update profile" message with no "key: value" segment gets the
\* instructive reply, makes no call to save_profile and leaves the session
\* profile unchanged.
C9_EmptyUpdateRejected ==
    [][\A m \in EmptyUpdateMsgs :
          message' = m =>
              /\ response'.kind = "update_instruction"
              /\ \A i \in 1..Len(gateway_calls') : gateway_calls'[i] # "save_profile"
              /\ user_profile' = user_profile]_vars

\* C10: whatever the capitalisation of the "update profile" prefix, the keys
\* merged into the profile are exactly the keys written after the prefix.
C10_PrefixAnyCase ==
    [][\A ps \in PairLists :
          message' = UpdateMsg(CapitalPrefix, ps, <<>>) =>
              DOMAIN user_profile' = (DOMAIN user_profile) \cup Keys(ps)]_vars

\* ------------------------------------------- claims on the saved-plan store

\* C11: after a save that the store accepted, get_workout_plans of the saving
\* user holds a record whose plan_data equals the dumped payload; every
\* element of that plan_data validates and the plans rebuilt from it are the
\* plan that was saved, and when the session list is that reload, loading the
\* record gives the saved plan as the current plan. The same for diet plans.
C11_RoundTrip ==
    /\ (message \in SaveWorkoutMsgs /\ response.kind = "saved_workout") =>
          \A rows \in {DbGetPlans(db_workout_plans, user_id)} :
              \E i \in 1..Len(rows) : \A data \in {rows[i].plan_data} :
                  /\ data = WorkoutPlanData(current_workout_plan)
                  /\ \A j \in 1..Len(data.v) : ValidWorkout(data.v[j])
                  /\ [j \in 1..Len(data.v) |-> WorkoutPlan(data.v[j])] = current_workout_plan
                  /\ saved_workout_plans = rows =>
                         LoadWorkoutPlan(i - 1) = [ok |-> TRUE, plans |-> current_workout_plan,
                                                   name |-> rows[i].plan_name]
    /\ (message \in SaveDietMsgs /\ response.kind = "saved_diet") =>
          \A rows \in {DbGetPlans(db_diet_plans, user_id)} :
              \E i \in 1..Len(rows) : \A data \in {rows[i].plan_data} :
                  /\ data = DietPlanData(current_diet_plan)
                  /\ \A j \in 1..Len(data.v) : ValidDiet(data.v[j])
                  /\ [j \in 1..Len(data.v) |-> DietPlan(data.v[j])] = current_diet_plan
                  /\ saved_diet_plans = rows =>
                         LoadDietPlan(i - 1) = [ok |-> TRUE, plans |-> current_diet_plan,
                                                name |-> rows[i].plan_name]

\* a diet plan saved and reloaded after a workout plan had been saved
C11_Witness ==
    /\ message \in SaveDietMsgs
    /\ response.kind = "saved_diet"
    /\ current_diet_plan # <<>>
    /\ saved_diet_plans = DbGetPlans(db_diet_plans, user_id)
    /\ Len(saved_diet_plans) = 1
    /\ LoadDietPlan(0).plans = current_diet_plan
    /\ Len(db_workout_plans) = 1

\* the rows of a plan table as a step leaves them: every row it held is still
\* there, unchanged and in its place
RowsKept(table, tableAfter) ==
    /\ Len(tableAfter) >= Len(table)
    /\ \A i \in 1..Len(table) : tableAfter[i] = table[i]

\* exactly one row was added, owned by uid
OneRowAdded(table, tableAfter, uid) ==
    /\ Len(tableAfter) = Len(table) + 1
    /\ tableAfter[Len(tableAfter)].user_id = uid
    /\ \A i \in 1..Len(table) : tableAfter[i].id # tableAfter[Len(tableAfter)].id

\* C12: saved plans are append-only. No command changes or removes a row of
\* workout_plans or diet_plans; a successful "save workout" (resp. "save
\* diet") adds exactly one row, owned by the saving user, to its table and none
\* to the other, also when a row of that name is already there.
C12_AppendOnly ==
    [][/\ RowsKept(db_workout_plans, db_workout_plans')
       /\ RowsKept(db_diet_plans, db_diet_plans')
       /\ (message' \in SaveWorkoutMsgs /\ response'.kind = "saved_workout") =>
              /\ OneRowAdded(db_workout_plans, db_workout_plans', user_id)
              /\ db_diet_plans' = db_diet_plans
       /\ (message' \in SaveDietMsgs /\ response'.kind = "saved_diet") =>
              /\ OneRowAdded(db_diet_plans, db_diet_plans', user_id)
              /\ db_workout_plans' = db_workout_plans
       /\ response'.kind \notin {"saved_workout", "saved_diet"} =>
              /\ db_workout_plans' = db_workout_plans
              /\ db_diet_plans' = db_diet_plans]_vars

\* two saved workout plans of the same user under the same name
C12_Witness ==
    /\ response.kind = "saved_workout"
    /\ Len(db_workout_plans) = 2
    /\ db_workout_plans[1].plan_name = db_workout_plans[2].plan_name
    /\ db_workout_plans[1].user_id = db_workout_plans[2].user_id
    /\ db_workout_plans[1].id # db_workout_plans[2].id

\* -------------------------------------- claims on commands that need a plan

\* C13: "save workout" (resp. "save diet") with no current workout (resp.
\* diet) plan replies with the create-one-first message, calls no operation of
\* the Persistence Gateway and leaves the session's saved lists and the stored
\* plan rows unchanged.
C13_SaveNeedsPlan ==
    [][/\ (message' \in SaveWorkoutMsgs /\ current_workout_plan = <<>>) =>
              /\ response'.kind = "no_workout_to_save"
              /\ gateway_calls' = <<>>
              /\ UNCHANGED <<saved_workout_plans, saved_diet_plans, dbVars>>
       /\ (message' \in SaveDietMsgs /\ current_diet_plan = <<>>) =>
              /\ response'.kind = "no_diet_to_save"
              /\ gateway_calls' = <<>>
              /\ UNCHANGED <<saved_workout_plans, saved_diet_plans, dbVars>>]_vars

\* "save diet" refused for want of a diet plan in a session that has a
\* workout plan and a saved workout plan
C13_Witness ==
    /\ message \in SaveDietMsgs
    /\ response.kind = "no_diet_to_save"
    /\ current_diet_plan = <<>>
    /\ current_workout_plan # <<>>
    /\ saved_workout_plans # <<>>
    /\ gateway_calls = <<>>

\* ------------------------------------- claims on the Persistence Gateway

\* the value an operation returns for a failure
Sentinel(op, val) ==
    IF op = "get_or_create_user" THEN val.id <= 0
    ELSE IF op = "save_profile" THEN val = FALSE
    ELSE IF op \in {"save_workout_plan", "save_diet_plan"} THEN val = 0 - 1
    ELSE IF op = "get_profile" THEN val = EmptyMapping
    ELSE val = <<>>

\* the payload of a recorded call is one json.dumps rejects
Unserialisable(c) ==
    IF c.op = "save_profile" THEN \E k \in DOMAIN c.data : ~Serialisable(c.data[k])
    ELSE c.op \in {"save_workout_plan", "save_diet_plan"} /\ ~Serialisable(c.data)

\* the operations of the gateway that touch the store
GwOps ==
    {"get_or_create_user", "get_profile", "save_profile", "save_workout_plan",
     "get_workout_plans", "save_diet_plan", "get_diet_plans"}

\* C14: no operation of the gateway lets an exception out, and an operation
\* that meets a failure (no connection, a closed connection, a failing
\* statement, a lost connection, a payload json.dumps rejects) returns its
\* sentinel: id <= 0, False, -1, the empty mapping, the empty list.
C14_NeverRaises ==
    [][gw_call'.op \in GwOps =>
          /\ ~gw_result'.raised
          /\ (\/ conn \in {"none", "closed"}
              \/ gw_call'.fault # "none"
              \/ Unserialisable(gw_call')) => Sentinel(gw_call'.op, gw_result'.val)]_vars

\* C15: no operation leaves the connection in an aborted transaction, so an
\* operation that meets no failure on an open connection does what it is
\* for: get_or_create_user gives an id > 0, a save of a serialisable payload
\* for an existing user gives True or an id > 0.
C15_RollsBackOnFailure ==
    [][/\ conn' # "aborted"
       /\ (conn \notin {"none", "closed"} /\ gw_call'.fault = "none") =>
              /\ gw_call'.op = "get_or_create_user" => gw_result'.val.id > 0
              /\ (/\ gw_call'.op \in {"save_profile", "save_workout_plan",
                                      "save_diet_plan"}
                  /\ ~Unserialisable(gw_call')
                  /\ UserExists(gw_call'.user_id))
                     => ~gw_result'.raised /\ ~Sentinel(gw_call'.op, gw_result'.val)]_vars

\* the profile_data stored for a user, the empty mapping if none is
StoredProfile(table, uid) ==
    IF \E i \in 1..Len(table) : table[i].user_id = uid
    THEN table[CHOOSE i \in 1..Len(table) : table[i].user_id = uid].profile_data
    ELSE EmptyMapping

\* C16: save_profile is an upsert. The profiles table never holds two rows of
\* one user and only a save_profile that returned True changes it: then the
\* user's row holds the whole mapping just saved and the rows of other users
\* are as before. A get_profile on a usable connection that meets no failure
\* returns the mapping stored for the user, so that of the latest successful
\* save, and the empty mapping when no save succeeded.
C16_Upsert ==
    [][/\ \A i, j \in 1..Len(db_profiles') :
              db_profiles'[i].user_id = db_profiles'[j].user_id => i = j
       /\ IF gw_call'.op = "save_profile" /\ ~gw_result'.raised /\ gw_result'.val = TRUE
          THEN \A uid \in GwUserIds :
                  StoredProfile(db_profiles', uid) =
                      IF uid = gw_call'.user_id THEN gw_call'.data
                      ELSE StoredProfile(db_profiles, uid)
          ELSE db_profiles' = db_profiles
       /\ (gw_call'.op = "get_profile" /\ gw_call'.fault = "none" /\ conn = "idle")
              => gw_result'.val = StoredProfile(db_profiles, gw_call'.user_id)]_vars

\* get_profile returns the two-key mapping saved for the second user while
\* the first user's profile is stored as well
C16_Witness ==
    /\ gw_call.op = "get_profile"
    /\ gw_call.fault = "none"
    /\ gw_call.user_id = 2
    /\ Len(db_profiles) = 2
    /\ DOMAIN gw_result.val = {"age", "goals"}
    /\ gw_result.val = StoredProfile(db_profiles, 2)
    /\ gw_result.val # StoredProfile(db_profiles, 1)

\* the id registered for a name, 0 if none is
IdOf(username) ==
    IF \E i \in 1..Len(db_users) : db_users[i].username = username
    THEN db_users[CHOOSE i \in 1..Len(db_users) : db_users[i].username = username].id
    ELSE 0

\* C17: on a usable connection to a store that meets no failure,
\* get_or_create_user gives a name not yet registered a new id > 0 with
\* created True, gives a registered name its id with created False, and no two
\* names ever share an id.
C17_Idempotent ==
    [][/\ \A i, j \in 1..Len(db_users') :
              (db_users'[i].id = db_users'[j].id
               \/ db_users'[i].username = db_users'[j].username) => i = j
       /\ (gw_call'.op = "get_or_create_user" /\ gw_call'.fault = "none" /\ conn = "idle")
              => IF IdOf(gw_call'.data) = 0
                 THEN /\ gw_result'.val.created
                      /\ gw_result'.val.id > 0
                      /\ \A i \in 1..Len(db_users) : db_users[i].id # gw_result'.val.id
                      /\ db_users' = Append(db_users, [id |-> gw_result'.val.id,
                                                       username |-> gw_call'.data])
                 ELSE /\ gw_result'.val = [id |-> IdOf(gw_call'.data), created |-> FALSE]
                      /\ db_users' = db_users]_vars

\* a later call for the second of two registered names
C17_Witness ==
    /\ gw_call.op = "get_or_create_user"
    /\ gw_call.fault = "none"
    /\ Len(db_users) = 2
    /\ gw_result.val = [id |-> 2, created |-> FALSE]
    /\ IdOf(gw_call.data) = 2

\* ------------------------------------------ claims on the Calendar Exporter

\* the number of the day of a date, counted from 0001-01-01
Ordinal(dt) ==
    365 * (dt.y - 1) + ((dt.y - 1) \div 4) - ((dt.y - 1) \div 100) + ((dt.y - 1) \div 400)
    + <<0, 31, 59, 90, 120, 151, 181, 212, 243, 273, 304, 334>>[dt.m]
    + (IF dt.m > 2 /\ IsLeap(dt.y) THEN 1 ELSE 0)
    + dt.d

\* C18: a create_workout_calendar call that returns for a plan list of length
\* n, start date D and duration m has written a file of exactly n events; for
\* each index i < n exactly one event begins i days after D at D's time of
\* day, names the day of plan i, and every event lasts m minutes, 60 when no
\* duration was passed. A 3-day plan from 2024-01-01 gives events on
\* 2024-01-01, 2024-01-02 and 2024-01-03.
C18_OneEventPerDay ==
    \A k \in 1..Len(calendar_log) : \A c \in {calendar_log[k]} :
        ~c.raised =>
            /\ c.path \in DOMAIN calendar_dir
            /\ \A events \in {calendar_dir[c.path]} :
                /\ Cardinality(events) = Len(c.workout_plans)
                /\ \A i \in 1..Len(c.workout_plans) :
                      Cardinality({e \in events :
                          /\ Ordinal(e.begin) = Ordinal(c.start_date) + i - 1
                          /\ e.begin.hm = c.start_date.hm
                          /\ e.name = <<"Workout", ":", " ">> \o c.workout_plans[i].day}) = 1
                /\ \A e \in events :
                      /\ e.duration = (IF c.given THEN c.minutes ELSE 60)
                      /\ e.begin.d \in 1..DaysInMonth(e.begin.y, e.begin.m)
                      /\ e.begin.m \in 1..12
                /\ (c.start_date = DateTime(2024, 1, 1, 0) /\ Len(c.workout_plans) = 3) =>
                      {e.begin : e \in events} =
                          {DateTime(2024, 1, 1, 0), DateTime(2024, 1, 2, 0),
                           DateTime(2024, 1, 3, 0)}

\* a 3-day plan exported from 2023-12-30 with the default duration: the last
\* event falls in the next year
C18_Witness ==
    /\ Len(calendar_log) = 1
    /\ ~calendar_log[1].raised
    /\ ~calendar_log[1].given
    /\ Len(calendar_log[1].workout_plans) = 3
    /\ calendar_log[1].start_date = DateTime(2023, 12, 30, 570)
    /\ \E e \in calendar_dir[calendar_log[1].path] :
          e.begin = DateTime(2024, 1, 1, 570) /\ e.duration = 60

\* C19: "export calendar" / "create calendar" with a current workout plan
\* calls create_workout_calendar with that plan; with none it replies with the
\* create-a-plan-first message, calls nothing and writes no calendar file.
C19_ExportDelegates ==
    [][\A m \in ExportMsgs :
          message' = m =>
              IF current_workout_plan = <<>>
              THEN /\ response'.kind = "no_workout_to_export"
                   /\ UNCHANGED <<calendar_log, calendar_dir, calendar_files>>
              ELSE /\ Len(calendar_log') = Len(calendar_log) + 1
                   /\ calendar_log'[Len(calendar_log')].workout_plans
                          = current_workout_plan]_vars

\* C20: "schedule workout" calls neither the Calendar Exporter nor the
\* Persistence Gateway and leaves the session (current plans, saved lists,
\* profile), the tables and the calendar files unchanged. With a current
\* plan the reply has one line per plan day, line i (0-based) naming that day
\* and dated i days after today; with none it is the create-one-first reply.
C20_SchedulePreview ==
    [][\A m \in ScheduleMsgs :
          message' = m =>
              /\ UNCHANGED <<sessionVars, dbVars, db_users, calVars>>
              /\ gateway_calls' = <<>>
              /\ IF current_workout_plan = <<>>
                 THEN response'.kind = "no_workout_to_schedule"
                 ELSE /\ response'.kind = "schedule"
                      /\ response'.today \in Nows
                      /\ Len(response'.lines) = Len(current_workout_plan)
                      /\ \A i \in 1..Len(current_workout_plan) :
                            /\ response'.lines[i].day = current_workout_plan[i].day
                            /\ Ordinal(response'.lines[i].date)
                                   = Ordinal(response'.today) + i - 1]_vars

\* a three-day plan scheduled from 2023-12-31 on: the last line is dated
\* 2024-01-02
C20_Witness ==
    /\ message \in ScheduleMsgs
    /\ response.kind = "schedule"
    /\ Len(current_workout_plan) = 3
    /\ Len(response.lines) = 3
    /\ response.today = DateTime(2023, 12, 31, 0)
    /\ response.lines[3].date = DateTime(2024, 1, 2, 0)

\* the create messages that carry no integer after "days:" / "calories:"
NoIntegerDays ==
    ParamWorkoutMsgs
    \ {<<"create", " ", "workout", " ", "plan", " ", "days", ":", " ", "3">>,
       <<"create", " ", "workout", " ", "plan", " ", "days", ":", " ", "2", " ",
         "level", ":", " ", "expert">>}

NoIntegerCalories ==
    ParamDietMsgs
    \ {<<"create", " ", "diet", " ", "plan", " ", "calories", ":", " ", "1", "8", "0", "0">>}

\* C21: a create workout message whose days: token is missing, empty or no
\* integer is answered without an exception (never the generic error reply),
\* and the plan the reply reports was asked for with days = 4; likewise a create
\* diet message without an integer calories: token asks for 2200 calories.
C21_DefaultsOnBadParameters ==
    [][/\ \A m \in NoIntegerDays :
             message' = m =>
                 /\ response'.kind \in {"created_workout", "create_workout_failed"}
                 /\ response'.kind = "created_workout" => response'.days = 4
       /\ \A m \in NoIntegerCalories :
             message' = m =>
                 /\ response'.kind \in {"created_diet", "create_diet_failed"}
                 /\ response'.kind = "created_diet" => response'.calories = 2200]_vars

\* "create workout days: abc" was answered with a plan asked for with 4 days
C21_Witness ==
    /\ message = <<"create", " ", "workout", " ", "days", ":", " ", "abc">>
    /\ response.kind = "created_workout"
    /\ response.days = 4
    /\ current_workout_plan # <<>>

\* the create messages whose level: token is missing, empty or none of the
\* three levels
NoKnownLevel ==
    ParamWorkoutMsgs
    \ {<<"Create", " ", "Workout", " ", "Plan", " ", "level", ":", " ", "Beginner">>,
       <<"create", " ", "workout", " ", "plan", " ", "days", ":", " ", "abc", " ",
         "level", ":", " ", "advanced">>}

\* C22: the level a create workout command asks the generator for (the level
\* its reply reports) is one of beginner, intermediate, advanced, and it is
\* intermediate when the level: token is missing or outside that set.
C22_LevelWhitelisted ==
    [][\A m \in ParamWorkoutMsgs :
          (message' = m /\ response'.kind = "created_workout") =>
              /\ response'.level \in {<<"beginner">>, <<"intermediate">>, <<"advanced">>}
              /\ m \in NoKnownLevel => response'.level = <<"intermediate">>]_vars

\* C23: process_chat_message never raises and returns a reply string: after
\* every chat message, whatever the generator, the gateway or the backend did,
\* there is a reply, no exception left the call, and the value returned for a
\* chat question is a string.
C23_AlwaysRepliesString ==
    [][message' # <<>> =>
          /\ response'.kind \notin {"none", "raised"}
          /\ response'.kind = "llm" => response'.value.t = "str"]_vars

\* the replies that report a failure: the generic error of the catch-all, and
\* the failure replies of create, save, load and update profile
FailureKinds ==
    {"error", "create_workout_failed", "create_diet_failed", "save_workout_failed",
     "save_diet_failed", "load_failed", "load_not_understood", "update_failed"}

\* C25: a chat message answered with a failure reply leaves the current
\* workout plan, the current diet plan and the in-memory profile as they were.
C25_FailureKeepsSession ==
    [][(message' # <<>> /\ response'.kind \in FailureKinds) =>
          UNCHANGED <<current_workout_plan, current_diet_plan, user_profile>>]_vars

\* the rules whose test a message passes
Matching(rules) == {r \in DOMAIN rules : rules[r]}

\* the replies each rule of process_chat_message can give
RuleKinds ==
    [create_workout |-> {"created_workout", "create_workout_failed", "error"},
     create_diet |-> {"created_diet", "create_diet_failed", "error"},
     save_workout |-> {"no_workout_to_save", "saved_workout", "save_workout_failed"},
     save_diet |-> {"no_diet_to_save", "saved_diet", "save_diet_failed"},
     list_workout |-> {"no_saved_workout_plans", "workout_list"},
     list_diet |-> {"no_saved_diet_plans", "diet_list"},
     load_workout |-> {"no_saved_workout_plans", "load_not_understood", "load_failed",
                       "loaded_workout", "error"},
     load_diet |-> {"no_saved_diet_plans", "load_not_understood", "load_failed",
                    "loaded_diet", "error"},
     view_profile |-> {"no_profile", "profile"},
     update_profile |-> {"update_instruction", "profile_updated", "update_failed"},
     export_calendar |-> {"no_workout_to_export", "go_to_calendar_tab"},
     schedule_workout |-> {"no_workout_to_schedule", "schedule"},
     help |-> {"help"}]

\* C24: no lowered message passes the tests of two different rules, in the
\* web chat or in the CLI chat; the handler that answers is the one of the only
\* rule the message passes, and the LLM fallback when it passes none.
C24_RulesDisjoint ==
    message # <<>> =>
        \A lower \in {Lower(message)} :
            /\ Cardinality(Matching(WebRules(lower))) <= 1
            /\ Cardinality(Matching(CliRules(lower))) <= 1
            /\ \A r \in Matching(WebRules(lower)) : response.kind \in RuleKinds[r]
            /\ Matching(WebRules(lower)) = {} => response.kind \in {"llm", "llm_advisory"}
            /\ \A r \in Matching(CliRules(lower)) : CliHandler(message) = r
            /\ Matching(CliRules(lower)) = {} => CliHandler(message) = "general_chat"

\* "create workout plans" passed both prefixes of the create workout rule and
\* no other rule; "Help" alone was answered by the help rule
C24_Witness ==
    /\ message = <<"create", " ", "workout", " ", "plan", "s">>
    /\ Matching(WebRules(Lower(message))) = {"create_workout"}
    /\ Matching(CliRules(Lower(message))) = {"handle_workout_creation"}
    /\ response.kind = "created_workout"

\* C26: right after a "save workout" answered with success, the session's
\* saved-workout list is what get_workout_plans gives for the user, newest
\* first: its first entry is the plan just saved, which "load workout plan: 1"
\* would make the current plan.
C26_SavedListTracksStore ==
    (message \in SaveWorkoutMsgs /\ response.kind = "saved_workout") =>
        /\ saved_workout_plans = DbGetPlans(db_workout_plans, user_id)
        /\ saved_workout_plans[1].plan_data = WorkoutPlanData(current_workout_plan)
        /\ \A i \in 2..Len(saved_workout_plans) :
              saved_workout_plans[i].created_at < saved_workout_plans[1].created_at
        /\ LoadWorkoutPlan(0).ok
        /\ LoadWorkoutPlan(0).plans = current_workout_plan

\* the text the user typed after the first "name:" of the message, trimmed
TypedName(m) ==
    Strip(SubSeq(m, Find(Lower(m), <<"name", ":">>) + 2, Len(m)))

\* C27: a plan saved from the chat is stored under exactly the text typed after
\* "name:", trimmed and in the letter case typed; without "name:" a workout
\* plan is stored as "<n>-Day Workout Plan" and a diet plan as
\* "Diet Plan (<today>)".
C27_PlanNameAsTyped ==
    /\ (message \in NamedSaveWorkoutMsgs /\ response.kind = "saved_workout") =>
          db_workout_plans[Len(db_workout_plans)].plan_name =
              IF Contains(Lower(message), <<"name", ":">>) THEN TypedName(message)
              ELSE DefaultWorkoutName(current_workout_plan)
    /\ (message \in NamedSaveDietMsgs /\ response.kind = "saved_diet") =>
          db_diet_plans[Len(db_diet_plans)].plan_name =
              IF Contains(Lower(message), <<"name", ":">>) THEN TypedName(message)
              ELSE DefaultDietName

\* C28: after a reply saying that an N-day workout plan was created, the
\* current workout plan holds exactly N day records, so the default name of a
\* following save is "N-Day Workout Plan".
C28_ReplyDaysMatchPlan ==
    response.kind = "created_workout" =>
        /\ Len(current_workout_plan) = response.days
        /\ DefaultWorkoutName(current_workout_plan) =
               IntToStr(response.days) \o <<"-Day", " ", "Workout", " ", "Plan">>

\* a step of the login page that ends logged in
LoggedIn == user_id = 0 /\ user_id' > 0 /\ response'.kind = "logged_in"

\* C29 (as stated): after Logout and a successful login the session holds
\* nothing of the user before: no current plan, no chat history, and the
\* profile and the saved lists are exactly the stored data of the user who
\* logged in.
C29_LoginShowsStoredData ==
    [][LoggedIn =>
          /\ current_workout_plan' = <<>>
          /\ current_diet_plan' = <<>>
          /\ chat_history' = <<>>
          /\ user_profile' = LoadedProfile(db_profiles', user_id')
          /\ saved_workout_plans' = DbGetPlans(db_workout_plans', user_id')
          /\ saved_diet_plans' = DbGetPlans(db_diet_plans', user_id')]_vars

\* C29 (amended): after Logout and a successful login the session holds
\* nothing of the user before: no current plan, no chat history, and each of
\* the profile and the two saved lists is either the stored data of the user
\* who logged in or empty.
C29_LogoutIsolates ==
    [][LoggedIn =>
          /\ current_workout_plan' = <<>>
          /\ current_diet_plan' = <<>>
          /\ chat_history' = <<>>
          /\ user_profile' \in {LoadedProfile(db_profiles', user_id'), NoProfile}
          /\ saved_workout_plans' \in {DbGetPlans(db_workout_plans', user_id'), <<>>}
          /\ saved_diet_plans' \in {DbGetPlans(db_diet_plans', user_id'), <<>>}]_vars

\* the second user has logged in and sees a saved plan of theirs, while the
\* store holds a profile and a plan of the first user
C29_Witness ==
    /\ response.kind = "logged_in"
    /\ user_id = 2
    /\ user_profile = NoProfile
    /\ saved_workout_plans # <<>>
    /\ saved_workout_plans = DbGetPlans(db_workout_plans, 2)
    /\ LoadedProfile(db_profiles, 1) # NoProfile
    /\ DbGetPlans(db_workout_plans, 1) # <<>>

\* both sessions have returned from calls for one username that neither SELECT
\* had found
Raced(s, t) ==
    /\ s # t
    /\ logins.of[s].pc = "done" /\ logins.of[t].pc = "done"
    /\ logins.of[s].username = logins.of[t].username
    /\ logins.of[s].created \/ logins.of[s].id < 0
    /\ logins.of[t].created \/ logins.of[t].id < 0

\* C30: two sessions that interleave get_or_create_user for a username not
\* yet registered both get the same positive id, exactly one of them with
\* created = True, and one users row holds the name; none gets the sentinel.
C30_ConcurrentLoginsSafe ==
    \A s \in Sessions, t \in Sessions :
        Raced(s, t) =>
            /\ logins.of[s].id > 0
            /\ logins.of[s].id = logins.of[t].id
            /\ logins.of[s].created # logins.of[t].created
            /\ Cardinality({i \in 1..Len(db_users) :
                              db_users[i].username = logins.of[s].username}) = 1

====
